---- MODULE Spec2Model ----
(***************************************************************************)
(* A model of pylox (klmr/pylox): the scanner, the resolver and the        *)
(* tree-walking interpreter with its environment chain.                    *)
(*                                                                         *)
(* Three state machines share the module:                                  *)
(*   SpecScan  Scanner.tokens() pulled token by token over every source    *)
(*             string up to MaxSrcLen characters of Alphabet;              *)
(*   Spec      resolve() followed by Interpreter.interpret() over the      *)
(*             programs of Programs, as a small-step machine whose         *)
(*             continuation stack mirrors the Python call stack;           *)
(*   SpecParse Parser.parse() over token streams, one step for each        *)
(*             iteration of its loop.                                      *)
(* Positions are 0-based as in the Python code; TLA+ sequences are 1-based.*)
(***************************************************************************)
EXTENDS Integers, Sequences, FiniteSets, TLC

VARIABLES
    \* ---- scanner (scanner.py: Scanner) ----
    source,        \* Scanner._source, a sequence of one-character strings
    start,         \* Scanner._start
    pos,           \* Scanner._pos
    tokens,        \* the tokens yielded so far by Scanner.tokens()
    scan_errors,   \* the scan_error calls received by the sink, in order
    scan_pc,       \* "idle" | "scanning" | "done"
    \* ---- driver ----
    driver,        \* "run" (klmr.pylox.run) | "run_test" (tests.run_test)
    logger,        \* the sink: "LoxLogger" (log.py) | "MockLogger" (tests/log.py)
    prog,          \* the program that was parsed
    pc,            \* "start" | "interpret" | "finished" | "crashed" | "idle"
    crash,         \* the Python exception that left the driver, or "none"
    \* ---- resolver (resolver.py) ----
    locals,        \* Interpreter._locals: node identity -> distance
    errors,        \* the parse_error calls received by the sink, in order
    had_error,     \* LoxLogger.had_error
    \* ---- interpreter (interpreter.py, environment.py) ----
    envs,          \* every Environment created, by index; 1 is Interpreter._globals
    env,           \* Interpreter._env, an index into envs
    instances,     \* every LoxInstance created, by index
    kont,          \* the call stack below the current step
    ctrl,          \* the current step
    out,           \* the lines printed
    rt_reports,    \* the runtime_error calls received by the sink, in order
    had_runtime_error,  \* LoxLogger.had_runtime_error
    \* ---- parser (parser.py: Parser) ----
    p_tokens,      \* the token stream given to Parser, ending in EOF
    curr,          \* the index in p_tokens of Parser._curr
    statements,    \* the list parse() is building
    parse_pc       \* "idle" | "parsing" | "done" | "crashed"

svars == <<source, start, pos, tokens, scan_errors, scan_pc>>

ivars == <<driver, logger, prog, pc, crash, locals, errors, had_error,
           envs, env, instances, kont, ctrl, out, rt_reports, had_runtime_error>>

pvars == <<p_tokens, curr, statements, parse_pc>>

vars == <<svars, ivars, pvars>>

(***************************************************************************)
(* Scanner                                                                 *)
(***************************************************************************)

\* longest source string enumerated
MaxSrcLen == 4

\* the characters sources are drawn from: a one-character token, the two
\* halves of the two-character operators, slash, newline, quote, a digit,
\* the dot, two letters spelling the keyword "or", and a character that
\* starts no token
Alphabet == {"(", "!", "=", "/", "\n", "\"", "1", ".", "o", "r", "?"}

Sources == UNION {[1..n -> Alphabet] : n \in 0..MaxSrcLen}

\* scanner.py:158-159
_isdigit(c) == c \in {"0", "1", "2", "3", "4", "5", "6", "7", "8", "9"}

\* scanner.py:162-163 (the letters of Alphabet, and the underscore)
_isalpha(c) == c \in {"o", "r", "_"}

\* scanner.py:166-167
_isalnum(c) == _isalpha(c) \/ _isdigit(c)

\* scanner.py:125-126
_at_end(src, p) == p >= Len(src)

\* scanner.py:141-142; "\0" is written "NUL"
_peek(src, p) == IF _at_end(src, p) THEN "NUL" ELSE src[p + 1]

\* scanner.py:144-145
_peek_next(src, p) == IF p + 1 >= Len(src) THEN "NUL" ELSE src[p + 2]

Min(a, b) == IF a <= b THEN a ELSE b

\* source[a:b], a Python slice: both ends are clipped to the length
Slice(src, a, b) ==
    IF Min(b, Len(src)) <= a THEN <<>> ELSE SubSeq(src, a + 1, Min(b, Len(src)))

\* scanner.py:11-28; of the keywords only "or" can be spelled in Alphabet
_KEYWORD_TOKENS(ident) == IF ident = <<"o", "r">> THEN "OR" ELSE "IDENTIFIER"

\* scanner.py:147-149: Token(type, lexeme, literal, self._pos, self._pos - self._start)
_token(src, st, p, type, literal) ==
    [type |-> type, lexeme |-> Slice(src, st, p), literal |-> literal,
     offset |-> p, length |-> p - st]

NoLiteral == [t |-> "none"]

\* the position after the loop `while P(self._peek()) and not at_end: advance`
RECURSIVE SkipWhile(_, _, _)
SkipWhile(src, p, stop) ==
    IF ~_at_end(src, p) /\ ~(src[p + 1] \in stop) THEN SkipWhile(src, p + 1, stop) ELSE p

RECURSIVE SkipDigits(_, _)
SkipDigits(src, p) == IF _isdigit(_peek(src, p)) THEN SkipDigits(src, p + 1) ELSE p

RECURSIVE SkipAlnum(_, _)
SkipAlnum(src, p) == IF _isalnum(_peek(src, p)) THEN SkipAlnum(src, p + 1) ELSE p

\* the result of one _scan_token call: the new position, the token or none,
\* and the error message or none
ScanResult(p, tok, err) == [pos |-> p, token |-> tok, error |-> err]
NoToken == [type |-> "none"]
NoError == "none"

\* a mutant of _string: an unterminated string yields a STRING token of what
\* was read and no error
_string_lenient(src, st, p) ==
    LET q == SkipWhile(src, p, {"\""})
    IN ScanResult(Min(q + 1, Len(src)),
                  _token(src, st, Min(q + 1, Len(src)), "STRING",
                         [t |-> "str", v |-> Slice(src, st + 1, q)]),
                  NoError)

\* scanner.py:94-104
_string(src, st, p) ==
    LET q == SkipWhile(src, p, {"\""})
    IN IF _at_end(src, q)
       THEN ScanResult(q, NoToken, "Unterminated string")
       ELSE ScanResult(q + 1,
                       _token(src, st, q + 1, "STRING",
                              [t |-> "str", v |-> Slice(src, st + 1, q)]),
                       NoError)

\* scanner.py:106-116; the literal float(text) is kept as the text scanned
_number(src, st, p) ==
    LET q == SkipDigits(src, p)
        r == IF _peek(src, q) = "." /\ _isdigit(_peek_next(src, q))
             THEN SkipDigits(src, q + 1) ELSE q
    IN ScanResult(r, _token(src, st, r, "NUMBER",
                            [t |-> "num", v |-> Slice(src, st, r)]), NoError)

\* scanner.py:118-123
_identifier(src, st, p) ==
    LET q == SkipAlnum(src, p)
    IN ScanResult(q, _token(src, st, q, _KEYWORD_TOKENS(Slice(src, st, q)), NoLiteral),
                  NoError)

\* scanner.py:133-139 (_match) as used by the two-character operators of 68-75
TwoChar(src, st, p, second, long, short) ==
    IF ~_at_end(src, p) /\ src[p + 1] = second
    THEN ScanResult(p + 1, _token(src, st, p + 1, long, NoLiteral), NoError)
    ELSE ScanResult(p, _token(src, st, p, short, NoLiteral), NoError)

\* scanner.py:46-92, called with self._start = st = the position of the
\* character _advance() returns; p = st + 1 is the position after it
_scan_token(src, st) ==
    LET c == src[st + 1]
        p == st + 1
    IN CASE c = "(" -> ScanResult(p, _token(src, st, p, "LEFT_PAREN", NoLiteral), NoError)
         [] c = "." -> ScanResult(p, _token(src, st, p, "DOT", NoLiteral), NoError)
         [] c = "!" -> TwoChar(src, st, p, "=", "BANG_EQ", "BANG")
         [] c = "=" -> TwoChar(src, st, p, "=", "EQ_EQ", "EQ")
         [] c = "/" -> IF ~_at_end(src, p) /\ src[p + 1] = "/"
                       THEN ScanResult(SkipWhile(src, p + 1, {"\n"}), NoToken, NoError)
                       ELSE ScanResult(p, _token(src, st, p, "SLASH", NoLiteral), NoError)
         [] c \in {" ", "\t", "\r", "\n"} -> ScanResult(p, NoToken, NoError)
         [] c = "\"" -> _string(src, st, p)
         [] _isdigit(c) -> _number(src, st, p)
         [] _isalpha(c) -> _identifier(src, st, p)
         [] OTHER -> ScanResult(p, NoToken, "Unexpected character")

\* scanner.py:151-155 with log.py:58-67 position_from_offset(source, offset)
RECURSIVE position_from_offset(_, _)
position_from_offset(src, offset) ==
    IF offset = 0 THEN <<1, 0>>
    ELSE LET prev == position_from_offset(src, offset - 1)
         IN IF src[offset] = "\n" THEN <<prev[1] + 1, 0>> ELSE <<prev[1], prev[2] + 1>>

\* one iteration of the loop of Scanner.tokens (scanner.py:38-43): the start
\* pointer is aligned, one token is scanned and, if there is one, yielded;
\* an error goes to the sink (log.py:37-38, which returns)
ScanStep ==
    /\ scan_pc = "scanning"
    /\ ~_at_end(source, pos)
    /\ LET r == _scan_token(source, pos)
       IN /\ start' = pos
          /\ pos' = r.pos
          /\ tokens' = IF r.token = NoToken THEN tokens ELSE Append(tokens, r.token)
          /\ scan_errors' = IF r.error = NoError THEN scan_errors
                            ELSE Append(scan_errors,
                                        [position |-> position_from_offset(source, r.pos),
                                         message |-> r.error])
    /\ UNCHANGED <<source, scan_pc>>
    /\ UNCHANGED <<ivars, pvars>>

\* a mutant of EOFToken: the EOF token built by _token, whose lexeme is
\* source[start:pos]
EOFToken_by_token(src, st, p) == _token(src, st, p, "EOF", NoLiteral)

\* scanner.py:44: Token(T.EOF, '', None, self._pos, 0)
EOFToken(src, st, p) ==
    [type |-> "EOF", lexeme |-> <<>>, literal |-> NoLiteral, offset |-> p, length |-> 0]

\* scanner.py:44: after the loop the EOF token is yielded and the generator ends
ScanEOF ==
    /\ scan_pc = "scanning"
    /\ _at_end(source, pos)
    /\ tokens' = Append(tokens, EOFToken(source, start, pos))
    /\ scan_pc' = "done"
    /\ UNCHANGED <<source, start, pos, scan_errors>>
    /\ UNCHANGED <<ivars, pvars>>

\* scanner.py:32-36: Scanner(source, logger); nothing else is running
ScanInit ==
    /\ source \in Sources
    /\ start = 0
    /\ pos = 0
    /\ tokens = <<>>
    /\ scan_errors = <<>>
    /\ scan_pc = "scanning"
    /\ driver = "none" /\ logger = "LoxLogger" /\ prog = [name |-> "none"]
    /\ pc = "idle" /\ crash = "none"
    /\ locals = <<>> /\ errors = <<>> /\ had_error = FALSE
    /\ envs = <<>> /\ env = 0 /\ instances = <<>>
    /\ kont = <<>> /\ ctrl = [m |-> "idle"]
    /\ out = <<>> /\ rt_reports = <<>> /\ had_runtime_error = FALSE
    /\ p_tokens = <<>> /\ curr = 0 /\ statements = <<>> /\ parse_pc = "idle"

ScanNext == ScanStep \/ ScanEOF

SpecScan == ScanInit /\ [][ScanNext]_vars


(***************************************************************************)
(* Runtime values (interpreter.py): nil, booleans, numbers, strings,       *)
(* callables and instances, as tagged records.  A number is an integer:    *)
(* the programs checked divide only by zero.                               *)
(***************************************************************************)

Nil == [t |-> "nil"]
Bool(b) == [t |-> "bool", v |-> b]
Num(n) == [t |-> "num", v |-> n]
Str(s) == [t |-> "str", v |-> s]
\* a LoxFunction: the declaration, the index of the captured frame, the flag
LoxFunction(decl, enclosing, is_init) ==
    [t |-> "fun", decl |-> decl, enclosing |-> enclosing, is_init |-> is_init]
\* a LoxClass: superclass is a class value or Nil, methods a function name -> LoxFunction
LoxClass(name, superclass, methods) ==
    [t |-> "class", name |-> name, superclass |-> superclass, methods |-> methods]
\* a LoxInstance, by its index in instances
LoxInstance(iid) == [t |-> "instance", iid |-> iid]
\* an entry of _native_funs
NativeFun(name) == [t |-> "native", name |-> name]
\* a Python object that is no Lox value: an AST node held as a value
AstObject(node) == [t |-> "ast", node |-> node]

(***************************************************************************)
(* The AST (ast.py, with the node shapes interpreter.py destructures).     *)
(* An expression that can be a side-table key carries id, its identity.    *)
(***************************************************************************)

None == [k |-> "None"]
Literal(v) == [k |-> "Literal", value |-> v]
Variable(id, name) == [k |-> "Variable", id |-> id, name |-> name]
Assign(id, name, value) == [k |-> "Assign", id |-> id, name |-> name, value |-> value]
Binary(left, op, right) == [k |-> "Binary", left |-> left, operator |-> op, right |-> right]
Logical(left, op, right) == [k |-> "Logical", left |-> left, operator |-> op, right |-> right]
Unary(op, operand) == [k |-> "Unary", operator |-> op, operand |-> operand]
Grouping(e) == [k |-> "Grouping", expr |-> e]
Call(callee, args) == [k |-> "Call", callee |-> callee, args |-> args]
Get(object, name) == [k |-> "Get", object |-> object, name |-> name]
Set(object, name, value) == [k |-> "Set", object |-> object, name |-> name, value |-> value]
This(id) == [k |-> "This", id |-> id, name |-> "this"]
Super(id, method) == [k |-> "Super", id |-> id, name |-> "super", method |-> method]

Block(stmts) == [k |-> "Block", stmts |-> stmts]
Class(name, superclass, methods) ==
    [k |-> "Class", name |-> name, superclass |-> superclass, methods |-> methods]
ExprStmt(e) == [k |-> "ExprStmt", expr |-> e]
FunctionStmt(name, params, body) ==
    [k |-> "FunctionStmt", name |-> name, params |-> params, body |-> body]
IfStmt(cond, then_branch, else_branch) ==
    [k |-> "IfStmt", cond |-> cond, then_branch |-> then_branch, else_branch |-> else_branch]
PrintStmt(e) == [k |-> "PrintStmt", expr |-> e]
ReturnStmt(value) == [k |-> "ReturnStmt", value |-> value]
VarStmt(name, init) == [k |-> "VarStmt", name |-> name, init |-> init]
WhileStmt(cond, body) == [k |-> "WhileStmt", cond |-> cond, body |-> body]

(***************************************************************************)
(* Finite maps with string keys (Python dicts)                             *)
(***************************************************************************)

EmptyMap == [x \in {} |-> Nil]
Put(m, key, v) == [x \in (DOMAIN m) \cup {key} |-> IF x = key THEN v ELSE m[x]]
Has(m, key) == key \in DOMAIN m

(***************************************************************************)
(* Resolver (resolver.py).  The pass is a pure function of the statements  *)
(* and the sink; rs is the Resolver object together with the side table    *)
(* it fills (Interpreter._locals) and the parse_error calls it makes.      *)
(* With the raising sink of tests/log.py the first report ends the pass:   *)
(* rs.raised.                                                              *)
(***************************************************************************)

\* resolver.py:28-33
NewResolver(lg) ==
    [scopes |-> <<>>, current_fun |-> "NONE", current_class |-> "NONE",
     locals |-> EmptyMap, errors |-> <<>>, raised |-> FALSE, lg |-> lg]

\* Logger.parse_error: log.py:40-45 records and returns (had_error is
\* errors # <<>>); tests/log.py:17-18 raises LoxSyntaxError
parse_error(rs, token, message) ==
    [rs EXCEPT !.errors = Append(@, [token |-> token, message |-> message]),
               !.raised = (rs.lg = "MockLogger")]

\* resolver.py:119-120
_begin_scope(rs) == IF rs.raised THEN rs ELSE [rs EXCEPT !.scopes = Append(@, EmptyMap)]

\* resolver.py:122-123
_end_scope(rs) ==
    IF rs.raised THEN rs ELSE [rs EXCEPT !.scopes = SubSeq(@, 1, Len(@) - 1)]

\* a mutant of _declare: a name already in the scope is declared again
_declare_nocheck(rs, name) ==
    IF rs.raised \/ rs.scopes = <<>> THEN rs
    ELSE [rs EXCEPT !.scopes[Len(rs.scopes)] = Put(@, name, FALSE)]

\* resolver.py:125-132
_declare(rs, name) ==
    IF rs.raised \/ rs.scopes = <<>> THEN rs
    ELSE LET n == Len(rs.scopes)
             r1 == IF Has(rs.scopes[n], name)
                   THEN parse_error(rs, name, "Already a variable with this name in scope")
                   ELSE rs
         IN IF r1.raised THEN r1 ELSE [r1 EXCEPT !.scopes[n] = Put(@, name, FALSE)]

\* resolver.py:134-138
_define(rs, name) ==
    IF rs.raised \/ rs.scopes = <<>> THEN rs
    ELSE [rs EXCEPT !.scopes[Len(rs.scopes)] = Put(@, name, TRUE)]

\* the innermost scope index holding name, from index i outward; 0 if none
RECURSIVE FindScope(_, _, _)
FindScope(scopes, i, name) ==
    IF i = 0 THEN 0
    ELSE IF Has(scopes[i], name) THEN i ELSE FindScope(scopes, i - 1, name)

\* a mutant of _resolve_local: inside a local scope, a name no scope holds is
\* recorded at the distance of the global frame
_resolve_local_outer(rs, id, name) ==
    IF rs.raised THEN rs
    ELSE LET i == FindScope(rs.scopes, Len(rs.scopes), name)
         IN IF rs.scopes = <<>> THEN rs
            ELSE [rs EXCEPT !.locals = Put(@, id, Len(rs.scopes) - i)]

\* resolver.py:140-145, with Interpreter.resolve (interpreter.py:151-152)
_resolve_local(rs, id, name) ==
    IF rs.raised THEN rs
    ELSE LET i == FindScope(rs.scopes, Len(rs.scopes), name)
         IN IF i = 0 THEN rs ELSE [rs EXCEPT !.locals = Put(@, id, Len(rs.scopes) - i)]

\* for param in params: self._declare(param); self._define(param)
RECURSIVE DeclareParams(_, _, _)
DeclareParams(rs, params, i) ==
    IF i > Len(params) THEN rs
    ELSE DeclareParams(_define(_declare(rs, params[i]), params[i]), params, i + 1)

RECURSIVE resolve(_, _)
RECURSIVE ResolveSeq(_, _, _)
RECURSIVE ResolveMethods(_, _, _)

\* resolver.py:147-158
_resolve_fun(rs, params, body, type) ==
    IF rs.raised THEN rs
    ELSE LET enclosing_fun == rs.current_fun
             r1 == _begin_scope([rs EXCEPT !.current_fun = type])
             r2 == DeclareParams(r1, params, 1)
             r3 == _end_scope(ResolveSeq(r2, body, 1))
         IN IF r3.raised THEN r3 ELSE [r3 EXCEPT !.current_fun = enclosing_fun]

\* resolver.py:35-37 resolve_stmts, and the loops over argument lists
ResolveSeq(rs, xs, i) ==
    IF i > Len(xs) THEN rs ELSE ResolveSeq(resolve(rs, xs[i]), xs, i + 1)

\* resolver.py:67-69
ResolveMethods(rs, methods, i) ==
    IF i > Len(methods) THEN rs
    ELSE ResolveMethods(
            _resolve_fun(rs, methods[i].params, methods[i].body,
                         IF methods[i].name = "init" THEN "INITIALIZER" ELSE "METHOD"),
            methods, i + 1)

\* a mutant of ResolveClass: current_class is not restored after the class
ResolveClass_norestore(rs, x) ==
    LET r1 == _define(_declare([rs EXCEPT !.current_class = "CLASS"], x.name), x.name)
        r2 == _begin_scope(r1)
        r3 == IF r2.raised THEN r2
              ELSE [r2 EXCEPT !.scopes[Len(r2.scopes)] = Put(@, "this", TRUE)]
    IN _end_scope(ResolveMethods(r3, x.methods, 1))

\* resolver.py:57-72.  The pattern Class(name, methods) takes the name and
\* the methods: the superclass expression is not visited, no scope holds
\* 'super', and current_class is CLASS whether or not there is a superclass.
ResolveClass(rs, x) ==
    LET enclosing_class == rs.current_class
        r1 == _define(_declare([rs EXCEPT !.current_class = "CLASS"], x.name), x.name)
        r2 == _begin_scope(r1)
        r3 == IF r2.raised THEN r2
              ELSE [r2 EXCEPT !.scopes[Len(r2.scopes)] = Put(@, "this", TRUE)]
        r4 == _end_scope(ResolveMethods(r3, x.methods, 1))
    IN IF r4.raised THEN r4 ELSE [r4 EXCEPT !.current_class = enclosing_class]

\* a mutant of ResolveReturn: the value is resolved and nothing is checked
ResolveReturn_nocheck(rs, x) == resolve(rs, x.value)

\* resolver.py:92-97
ResolveReturn(rs, x) ==
    LET r1 == IF rs.current_fun = "NONE"
              THEN parse_error(rs, "return", "Can't return from top-level code")
              ELSE rs
        r2 == IF ~r1.raised /\ x.value # None /\ r1.current_fun = "INITIALIZER"
              THEN parse_error(r1, "return", "Can't return a value from an initializer")
              ELSE r1
    IN resolve(r2, x.value)

\* a mutant of ResolveVariable: no check of the name's own initializer
ResolveVariable_nocheck(rs, x) == _resolve_local(rs, x.id, x.name)

\* resolver.py:107-110
ResolveVariable(rs, x) ==
    LET n == Len(rs.scopes)
        r1 == IF n > 0 /\ Has(rs.scopes[n], x.name) /\ rs.scopes[n][x.name] = FALSE
              THEN parse_error(rs, x.name, "Can't read local variable in its own initializer")
              ELSE rs
    IN _resolve_local(r1, x.id, x.name)

\* resolver.py:39-117.  There is no case for Super: the match falls through
\* and nothing is recorded for it.
resolve(rs, x) ==
    IF rs.raised THEN rs
    ELSE CASE x.k \in {"None", "Literal"} -> rs
           [] x.k = "Assign" -> _resolve_local(resolve(rs, x.value), x.id, x.name)
           [] x.k \in {"Binary", "Logical"} -> resolve(resolve(rs, x.left), x.right)
           [] x.k = "Block" -> _end_scope(ResolveSeq(_begin_scope(rs), x.stmts, 1))
           [] x.k = "Call" -> ResolveSeq(resolve(rs, x.callee), x.args, 1)
           [] x.k = "Class" -> ResolveClass(rs, x)
           [] x.k \in {"ExprStmt", "Grouping", "PrintStmt"} -> resolve(rs, x.expr)
           [] x.k = "FunctionStmt" ->
                _resolve_fun(_define(_declare(rs, x.name), x.name),
                             x.params, x.body, "FUNCTION")
           [] x.k = "Get" -> resolve(rs, x.object)
           [] x.k = "IfStmt" ->
                resolve(resolve(resolve(rs, x.cond), x.then_branch), x.else_branch)
           [] x.k = "ReturnStmt" -> ResolveReturn(rs, x)
           [] x.k = "Set" -> resolve(resolve(rs, x.value), x.object)
           [] x.k = "This" ->
                _resolve_local(
                    IF rs.current_class = "NONE"
                    THEN parse_error(rs, "this", "Can't use 'this' outside of a class")
                    ELSE rs,
                    x.id, "this")
           [] x.k = "Unary" -> resolve(rs, x.operand)
           [] x.k = "Variable" -> ResolveVariable(rs, x)
           [] x.k = "VarStmt" -> _define(resolve(_declare(rs, x.name), x.init), x.name)
           [] x.k = "WhileStmt" -> resolve(resolve(rs, x.cond), x.body)
           [] x.k = "Super" -> rs

\* resolver.py:11-12: resolve(logger, interpreter, stmts)
ResolveProgram(lg, stmts) == ResolveSeq(NewResolver(lg), stmts, 1)

(***************************************************************************)
(* Environment (environment.py).  Frames live in the arena envs; a frame   *)
(* is named by its index, 0 is None.                                       *)
(***************************************************************************)

\* environment.py:9-11
Environment(enclosing) == [enclosing |-> enclosing, bindings |-> EmptyMap]

\* exceptions: Return (interpreter.py:19-21), LoxRuntimeError (log.py:8-11)
\* and the host's own (KeyError, AttributeError, TypeError, LoxSyntaxError)
ReturnSignal(v) == [k |-> "Return", msg |-> "", op |-> "", value |-> v]
LoxRuntimeError(op, msg) == [k |-> "LoxRuntimeError", msg |-> msg, op |-> op, value |-> Nil]
HostError(kind, what) == [k |-> kind, msg |-> what, op |-> "", value |-> Nil]

Ok(v) == [ok |-> TRUE, v |-> v]
Fail(exc) == [ok |-> FALSE, exc |-> exc]

\* environment.py:13-14
define(es, e, name, value) == [es EXCEPT ![e].bindings = Put(@, name, value)]

\* environment.py:39-43: dist parent links from frame e; range(dist) is empty
\* for dist <= 0; 0 is None, -1 an attribute access on None
RECURSIVE _ancestor(_, _, _)
_ancestor(es, e, dist) ==
    IF dist <= 0 THEN e
    ELSE IF e = 0 THEN -1
    ELSE _ancestor(es, es[e].enclosing, dist - 1)

\* environment.py:16-23
RECURSIVE get(_, _, _)
get(es, e, name) ==
    IF Has(es[e].bindings, name) THEN Ok(es[e].bindings[name])
    ELSE IF es[e].enclosing # 0 THEN get(es, es[e].enclosing, name)
    ELSE Fail(LoxRuntimeError(name, "Undefined variable '" \o name \o "'"))

\* environment.py:25-26
get_at(es, e, dist, name) ==
    LET a == _ancestor(es, e, dist)
    IN IF a <= 0 THEN Fail(HostError("AttributeError", name))
       ELSE IF ~Has(es[a].bindings, name) THEN Fail(HostError("KeyError", name))
       ELSE Ok(es[a].bindings[name])

\* a mutant of assign: a name no frame of the chain binds is bound in the
\* last frame of the chain
RECURSIVE assign_create(_, _, _, _)
assign_create(es, e, name, value) ==
    IF Has(es[e].bindings, name) \/ es[e].enclosing = 0 THEN Ok(define(es, e, name, value))
    ELSE assign_create(es, es[e].enclosing, name, value)

\* environment.py:28-34; the result is the arena after the assignment
RECURSIVE assign(_, _, _, _)
assign(es, e, name, value) ==
    IF Has(es[e].bindings, name) THEN Ok(define(es, e, name, value))
    ELSE IF es[e].enclosing # 0 THEN assign(es, es[e].enclosing, name, value)
    ELSE Fail(LoxRuntimeError(name, "Undefined variable '" \o name \o "'"))

\* environment.py:36-37
assign_at(es, e, dist, name, value) ==
    LET a == _ancestor(es, e, dist)
    IN IF a <= 0 THEN Fail(HostError("AttributeError", name))
       ELSE Ok(define(es, a, name, value))

(***************************************************************************)
(* Pure helpers of the interpreter (interpreter.py)                        *)
(***************************************************************************)

\* a mutant of _is_truthy: zero and the empty string are falsy too
_is_truthy_zero(x) ==
    IF x.t = "nil" THEN FALSE
    ELSE IF x.t = "bool" THEN x.v
    ELSE IF x.t = "num" THEN x.v # 0
    ELSE IF x.t = "str" THEN x.v # ""
    ELSE TRUE

\* interpreter.py:358-365
_is_truthy(x) ==
    IF x.t = "nil" THEN FALSE
    ELSE IF x.t = "bool" THEN x.v
    ELSE TRUE

\* Python's == on two runtime values: bool is an int, so True == 1.0;
\* strings compare by content; every other object compares by identity
PyNumber(x) == IF x.t = "bool" THEN (IF x.v THEN 1 ELSE 0) ELSE x.v
PyEquals(x, y) ==
    IF x.t \in {"bool", "num"} /\ y.t \in {"bool", "num"} THEN PyNumber(x) = PyNumber(y)
    ELSE IF x.t # y.t THEN FALSE
    ELSE x = y

\* interpreter.py:368-375
_is_equal(x, y) ==
    IF x.t = "nil" /\ y.t = "nil" THEN TRUE
    ELSE IF x.t = "nil" THEN FALSE
    ELSE PyEquals(x, y)

\* the text of an integer-valued float without its ".0"
NumText(n) == IF n < 0 THEN "-" \o ToString(-n) ELSE ToString(n)

\* the dataclass repr of a node, as far as the programs print one
Repr(node) ==
    IF node.k = "Literal" /\ node.value.t = "num"
    THEN "Literal(value=" \o NumText(node.value.v) \o ".0)"
    ELSE node.k \o "(...)"

\* interpreter.py:392-406, with __str__ of the callables (69-70, 90-91,
\* 122-123, 429-430) and the dataclass repr of an AST node
\* (the single angle quotation marks of the source are written < and >, and
\* the typographic apostrophe of its messages is written ')
_stringify(x) ==
    CASE x.t = "nil" -> "nil"
      [] x.t = "bool" -> IF x.v THEN "true" ELSE "false"
      [] x.t = "num" -> NumText(x.v)
      [] x.t = "str" -> x.v
      [] x.t = "fun" -> "<fun " \o x.decl.name \o ">"
      [] x.t = "class" -> "<class " \o x.name \o ">"
      [] x.t = "instance" -> "<" \o instances[x.iid].cls.name \o " instance>"
      [] x.t = "native" -> "<native fun>"
      [] x.t = "ast" -> Repr(x.node)

\* interpreter.py:100-108
RECURSIVE find_method(_, _)
find_method(cls, name) ==
    IF Has(cls.methods, name) THEN cls.methods[name]
    ELSE IF cls.superclass # Nil THEN find_method(cls.superclass, name)
    ELSE None

\* interpreter.py:49-51, 110-113, 420-424: the arity of a callable
arity(callee) ==
    CASE callee.t = "fun" -> Len(callee.decl.params)
      [] callee.t = "class" ->
            IF find_method(callee, "init") # None
            THEN Len(find_method(callee, "init").decl.params) ELSE 0
      [] callee.t = "native" -> IF callee.name = "printf" THEN 1 ELSE 0

\* isinstance(callee, LoxCallable)
IsCallable(x) == x.t \in {"fun", "class", "native"}

\* the bindings zip(params, args) defines in order (interpreter.py:55-56)
ParamBindings(params, args) ==
    [x \in {params[i] : i \in 1..Len(params)} |->
        args[CHOOSE i \in 1..Len(params) :
                params[i] = x /\ \A j \in (i + 1)..Len(params) : params[j] # x]]

\* interpreter.py:262-272
_visit_unary(op, operand) ==
    IF op = "-"
    THEN IF operand.t # "num" THEN Fail(LoxRuntimeError(op, "Operand must be a number"))
         ELSE Ok(Num(-operand.v))
    ELSE Ok(Bool(~_is_truthy(operand)))

\* interpreter.py:387-389
BothNumbers(left, right) == left.t = "num" /\ right.t = "num"

\* interpreter.py:274-315, after both operands are evaluated
_visit_binary(op, left, right) ==
    CASE op \in {"==", "!="} ->
            Ok(Bool(IF op = "==" THEN _is_equal(left, right) ELSE ~_is_equal(left, right)))
      [] op = "+" ->
            IF BothNumbers(left, right) THEN Ok(Num(left.v + right.v))
            ELSE IF left.t = "str" /\ right.t = "str" THEN Ok(Str(left.v \o right.v))
            ELSE Fail(LoxRuntimeError(op, "Operands must be two numbers or two strings"))
      [] OTHER ->
            IF ~BothNumbers(left, right)
            THEN Fail(LoxRuntimeError(op, "Operands must be numbers"))
            ELSE CASE op = "<" -> Ok(Bool(left.v < right.v))
                   [] op = "<=" -> Ok(Bool(left.v <= right.v))
                   [] op = ">" -> Ok(Bool(left.v > right.v))
                   [] op = ">=" -> Ok(Bool(left.v >= right.v))
                   [] op = "-" -> Ok(Num(left.v - right.v))
                   [] op = "*" -> Ok(Num(left.v * right.v))
                   [] op = "/" ->
                        IF right.v = 0 THEN Fail(LoxRuntimeError(op, "Cannot divide by zero"))
                        ELSE Ok(Num(left.v \div right.v))

(***************************************************************************)
(* The interpreter as a small-step machine.                                *)
(*   ctrl  what the Python code is doing now: executing a statement,       *)
(*         evaluating an expression, returning from _execute ("done") or   *)
(*         from _evaluate ("val"), or propagating an exception ("raise");  *)
(*   kont  the Python call stack below it, one frame for every call that   *)
(*         still has work to do or a handler to run, innermost last.       *)
(***************************************************************************)

Done == [m |-> "done"]
Exec(s) == [m |-> "exec", s |-> s]
Eval(e) == [m |-> "eval", e |-> e]
Val(v) == [m |-> "val", v |-> v]
Raise(exc) == [m |-> "raise", exc |-> exc]
Idle == [m |-> "idle"]
CtrlOf(r) == IF r.ok THEN Val(r.v) ELSE Raise(r.exc)

Top == kont[Len(kont)]
Pop == SubSeq(kont, 1, Len(kont) - 1)
Push(frame) == Append(kont, frame)
Replace(frame) == Append(Pop, frame)

Running == pc = "interpret"
Executing(kind) == Running /\ ctrl.m = "exec" /\ ctrl.s.k = kind
Evaluating(kind) == Running /\ ctrl.m = "eval" /\ ctrl.e.k = kind
Returned(frame) == Running /\ ctrl.m = "val" /\ Top.f = frame
Finished(frame) == Running /\ ctrl.m = "done" /\ Top.f = frame
Raising == Running /\ ctrl.m = "raise"

\* the variables an interpreter step never changes
Fixed == <<source, start, pos, tokens, scan_errors, scan_pc,
           driver, logger, prog, locals, errors, had_error,
           p_tokens, curr, statements, parse_pc>>

\* a step that changes control only
Go(c, k) ==
    /\ ctrl' = c
    /\ kont' = k
    /\ UNCHANGED <<env, envs, instances, out, rt_reports, had_runtime_error, crash, pc>>
    /\ UNCHANGED Fixed

\* a step that also changes the current frame and the arena
GoEnv(c, k, e, es) ==
    /\ ctrl' = c
    /\ kont' = k
    /\ env' = e
    /\ envs' = es
    /\ UNCHANGED <<instances, out, rt_reports, had_runtime_error, crash, pc>>
    /\ UNCHANGED Fixed

\* ---------------------------------------------------------------- statements

\* interpreter.py:156-157 with 205-208: Block
ExecBlock ==
    /\ Executing("Block")
    /\ GoEnv(Done, Push([f |-> "block", stmts |-> ctrl.s.stmts, i |-> 1, prev |-> env]),
             Len(envs) + 1, Append(envs, Environment(env)))

\* interpreter.py:209-212: the loop of _execute_block and its normal exit
ResumeBlock ==
    /\ Finished("block")
    /\ IF Top.i <= Len(Top.stmts)
       THEN Go(Exec(Top.stmts[Top.i]), Replace([Top EXCEPT !.i = @ + 1]))
       ELSE GoEnv(Done, Pop, Top.prev, envs)

\* a mutant of UnwindBlock: no finally, the exception leaves the frame as it is
UnwindBlock_keep ==
    /\ Raising
    /\ Top.f = "block"
    /\ Go(ctrl, Pop)

\* interpreter.py:211-212: finally, on an exception
UnwindBlock ==
    /\ Raising
    /\ Top.f = "block"
    /\ GoEnv(ctrl, Pop, Top.prev, envs)

\* the dict comprehension of interpreter.py:172-175
MethodMap(methods, closure) ==
    [x \in {methods[i].name : i \in 1..Len(methods)} |->
        LET i == CHOOSE i \in 1..Len(methods) :
                    methods[i].name = x /\ \A j \in (i + 1)..Len(methods) : methods[j].name # x
        IN LoxFunction(methods[i], closure, x = "init")]

\* interpreter.py:166-181: the arena after the class is defined; the frame
\* holding 'super' is entered for the methods and left again
DefineClass(s, superclass) ==
    LET es1 == define(envs, env, s.name, Nil)
        es2 == IF superclass # Nil
               THEN Append(es1, [enclosing |-> env,
                                 bindings |-> Put(EmptyMap, "super", superclass)])
               ELSE es1
        closure == IF superclass # Nil THEN Len(es2) ELSE env
        cls == LoxClass(s.name, superclass, MethodMap(s.methods, closure))
    IN assign(es2, env, s.name, cls).v

\* interpreter.py:158-181: Class
ExecClass ==
    /\ Executing("Class")
    /\ IF ctrl.s.superclass # None
       THEN Go(Eval(ctrl.s.superclass), Push([f |-> "class_super", s |-> ctrl.s]))
       ELSE GoEnv(Done, kont, env, DefineClass(ctrl.s, Nil))

\* interpreter.py:161-162 and on
ResumeClassSuper ==
    /\ Returned("class_super")
    /\ IF ctrl.v.t # "class"
       THEN Go(Raise(LoxRuntimeError(Top.s.superclass.name, "Superclass must name a class")),
               Pop)
       ELSE GoEnv(Done, Pop, env, DefineClass(Top.s, ctrl.v))

\* interpreter.py:182-183: ExprStmt
ExecExprStmt ==
    /\ Executing("ExprStmt")
    /\ Go(Eval(ctrl.s.expr), Push([f |-> "exprstmt"]))

ResumeExprStmt ==
    /\ Returned("exprstmt")
    /\ Go(Done, Pop)

\* a mutant of ExecFunctionStmt: the function captures a copy of the current
\* frame instead of the frame
ExecFunctionStmt_copy ==
    /\ Executing("FunctionStmt")
    /\ GoEnv(Done, kont, env,
             Append(define(envs, env, ctrl.s.name, LoxFunction(ctrl.s, Len(envs) + 1, FALSE)),
                    envs[env]))

\* interpreter.py:184-186: FunctionStmt
ExecFunctionStmt ==
    /\ Executing("FunctionStmt")
    /\ GoEnv(Done, kont, env,
             define(envs, env, ctrl.s.name, LoxFunction(ctrl.s, env, FALSE)))

\* interpreter.py:187-191: IfStmt
ExecIf ==
    /\ Executing("IfStmt")
    /\ Go(Eval(ctrl.s.cond), Push([f |-> "if", s |-> ctrl.s]))

ResumeIf ==
    /\ Returned("if")
    /\ IF _is_truthy(ctrl.v) THEN Go(Exec(Top.s.then_branch), Pop)
       ELSE IF Top.s.else_branch # None THEN Go(Exec(Top.s.else_branch), Pop)
       ELSE Go(Done, Pop)

\* interpreter.py:192-194: PrintStmt
ExecPrint ==
    /\ Executing("PrintStmt")
    /\ Go(Eval(ctrl.s.expr), Push([f |-> "print"]))

ResumePrint ==
    /\ Returned("print")
    /\ ctrl' = Done
    /\ kont' = Pop
    /\ out' = Append(out, _stringify(ctrl.v))
    /\ UNCHANGED <<env, envs, instances, rt_reports, had_runtime_error, crash, pc>>
    /\ UNCHANGED Fixed

\* interpreter.py:195-197: ReturnStmt
ExecReturn ==
    /\ Executing("ReturnStmt")
    /\ IF ctrl.s.value = None THEN Go(Raise(ReturnSignal(Nil)), kont)
       ELSE Go(Eval(ctrl.s.value), Push([f |-> "return"]))

ResumeReturn ==
    /\ Returned("return")
    /\ Go(Raise(ReturnSignal(ctrl.v)), Pop)

\* interpreter.py:198-200: VarStmt
ExecVar ==
    /\ Executing("VarStmt")
    /\ IF ctrl.s.init = None
       THEN GoEnv(Done, kont, env, define(envs, env, ctrl.s.name, Nil))
       ELSE Go(Eval(ctrl.s.init), Push([f |-> "var", name |-> ctrl.s.name]))

ResumeVar ==
    /\ Returned("var")
    /\ GoEnv(Done, Pop, env, define(envs, env, Top.name, ctrl.v))

\* interpreter.py:201-203: WhileStmt
ExecWhile ==
    /\ Executing("WhileStmt")
    /\ Go(Eval(ctrl.s.cond), Push([f |-> "while", s |-> ctrl.s]))

ResumeWhileCond ==
    /\ Returned("while")
    /\ IF _is_truthy(ctrl.v) THEN Go(Exec(Top.s.body), kont) ELSE Go(Done, Pop)

ResumeWhileBody ==
    /\ Finished("while")
    /\ Go(Eval(Top.s.cond), kont)

\* --------------------------------------------------------------- expressions

\* interpreter.py:231-232: Literal
EvalLiteral ==
    /\ Evaluating("Literal")
    /\ Go(Val(ctrl.e.value), kont)

\* interpreter.py:229-230: Grouping
EvalGrouping ==
    /\ Evaluating("Grouping")
    /\ Go(Eval(ctrl.e.expr), kont)

\* a mutant of _lookup_variable: the name is looked up along the chain of
\* the current frame, whatever the side table says
_lookup_variable_dynamic(es, e, tbl, name, id) == get(es, e, name)

\* interpreter.py:343-348
_lookup_variable(es, e, tbl, name, id) ==
    IF Has(tbl, id) THEN get_at(es, e, tbl[id], name) ELSE get(es, 1, name)

\* interpreter.py:253-254, 257-258: This, Variable
EvalVariable ==
    /\ Running /\ ctrl.m = "eval" /\ ctrl.e.k \in {"Variable", "This"}
    /\ Go(CtrlOf(_lookup_variable(envs, env, locals, ctrl.e.name, ctrl.e.id)), kont)

\* interpreter.py:350-355; the result is the arena after the assignment
_assign_variable(es, e, tbl, name, id, value) ==
    IF Has(tbl, id) THEN assign_at(es, e, tbl[id], name, value)
    ELSE assign(es, 1, name, value)

\* interpreter.py:216-217: Assign
EvalAssign ==
    /\ Evaluating("Assign")
    /\ Go(Eval(ctrl.e.value), Push([f |-> "assign", e |-> ctrl.e]))

\* interpreter.py:219: `return value`, the expression node of the right-hand
\* side, not val, the value it evaluated to
AssignResult(e, val) == AstObject(e.value)

\* interpreter.py:218-219
ResumeAssign ==
    /\ Returned("assign")
    /\ LET r == _assign_variable(envs, env, locals, Top.e.name, Top.e.id, ctrl.v)
       IN IF r.ok THEN GoEnv(Val(AssignResult(Top.e, ctrl.v)), Pop, env, r.v)
          ELSE Go(Raise(r.exc), Pop)

\* a mutant of EvalBinary: the right operand is evaluated first
EvalBinary_rightfirst ==
    /\ Evaluating("Binary")
    /\ Go(Eval(ctrl.e.right),
          Push([f |-> "binary_left",
                e |-> [ctrl.e EXCEPT !.left = ctrl.e.right, !.right = ctrl.e.left]]))

\* interpreter.py:274-276: Binary
EvalBinary ==
    /\ Evaluating("Binary")
    /\ Go(Eval(ctrl.e.left), Push([f |-> "binary_left", e |-> ctrl.e]))

ResumeBinaryLeft ==
    /\ Returned("binary_left")
    /\ Go(Eval(Top.e.right), Replace([f |-> "binary_right", e |-> Top.e, left |-> ctrl.v]))

\* interpreter.py:277-315
ResumeBinaryRight ==
    /\ Returned("binary_right")
    /\ Go(CtrlOf(_visit_binary(Top.e.operator, Top.left, ctrl.v)), Pop)

\* interpreter.py:317-318: Logical
EvalLogical ==
    /\ Evaluating("Logical")
    /\ Go(Eval(ctrl.e.left), Push([f |-> "logical", e |-> ctrl.e]))

\* interpreter.py:319-329
ResumeLogical ==
    /\ Returned("logical")
    /\ IF \/ Top.e.operator = "or" /\ _is_truthy(ctrl.v)
          \/ Top.e.operator = "and" /\ ~_is_truthy(ctrl.v)
       THEN Go(Val(ctrl.v), Pop)
       ELSE Go(Eval(Top.e.right), Pop)

\* interpreter.py:262-263: Unary
EvalUnary ==
    /\ Evaluating("Unary")
    /\ Go(Eval(ctrl.e.operand), Push([f |-> "unary", e |-> ctrl.e]))

ResumeUnary ==
    /\ Returned("unary")
    /\ Go(CtrlOf(_visit_unary(Top.e.operator, ctrl.v)), Pop)

\* a mutant of BoundEnv: this is bound to the first instance created
BoundEnv_first(fn, instance) ==
    [enclosing |-> fn.enclosing, bindings |-> Put(EmptyMap, "this", LoxInstance(1))]

\* interpreter.py:44-47: the frame bind creates, and the bound function
BoundEnv(fn, instance) ==
    [enclosing |-> fn.enclosing, bindings |-> Put(EmptyMap, "this", instance)]
Bound(fn, closure) == LoxFunction(fn.decl, closure, fn.is_init)

\* interpreter.py:224-225: Get
EvalGet ==
    /\ Evaluating("Get")
    /\ Go(Eval(ctrl.e.object), Push([f |-> "get", e |-> ctrl.e]))

\* interpreter.py:226-228 with LoxInstance.get (78-85)
ResumeGet ==
    /\ Returned("get")
    /\ IF ctrl.v.t # "instance"
       THEN Go(Raise(LoxRuntimeError(Top.e.name, "Only instances have properties")), Pop)
       ELSE LET inst == instances[ctrl.v.iid]
                method == find_method(inst.cls, Top.e.name)
            IN IF Has(inst.fields, Top.e.name)
               THEN Go(Val(inst.fields[Top.e.name]), Pop)
               ELSE IF method # None
               THEN GoEnv(Val(Bound(method, Len(envs) + 1)), Pop, env,
                          Append(envs, BoundEnv(method, ctrl.v)))
               ELSE Go(Raise(LoxRuntimeError(Top.e.name, "Undefined property")), Pop)

\* interpreter.py:235-236: Set
EvalSet ==
    /\ Evaluating("Set")
    /\ Go(Eval(ctrl.e.object), Push([f |-> "set_object", e |-> ctrl.e]))

\* interpreter.py:237-240
ResumeSetObject ==
    /\ Returned("set_object")
    /\ IF ctrl.v.t # "instance"
       THEN Go(Raise(LoxRuntimeError(Top.e.name, "Only instances have fields")), Pop)
       ELSE Go(Eval(Top.e.value), Replace([f |-> "set_value", e |-> Top.e, obj |-> ctrl.v]))

\* interpreter.py:241-242 with LoxInstance.set (87-88)
ResumeSetValue ==
    /\ Returned("set_value")
    /\ ctrl' = Val(ctrl.v)
    /\ kont' = Pop
    /\ instances' = [instances EXCEPT ![Top.obj.iid].fields = Put(@, Top.e.name, ctrl.v)]
    /\ UNCHANGED <<env, envs, out, rt_reports, had_runtime_error, crash, pc>>
    /\ UNCHANGED Fixed

\* interpreter.py:243-252: Super.  self._locals[expr] raises KeyError when
\* the side table has no entry for the expression.
EvalSuper ==
    /\ Evaluating("Super")
    /\ IF ~Has(locals, ctrl.e.id)
       THEN Go(Raise(HostError("KeyError", "super")), kont)
       ELSE LET dist == locals[ctrl.e.id]
                superclass == get_at(envs, env, dist, "super")
                object == get_at(envs, env, dist - 1, "this")
            IN IF ~superclass.ok THEN Go(Raise(superclass.exc), kont)
               ELSE IF ~object.ok THEN Go(Raise(object.exc), kont)
               ELSE LET method == find_method(superclass.v, ctrl.e.method)
                    IN IF method = None
                       THEN Go(Raise(LoxRuntimeError(ctrl.e.method, "Undefined property")),
                               kont)
                       ELSE GoEnv(Val(Bound(method, Len(envs) + 1)), kont, env,
                                  Append(envs, BoundEnv(method, object.v)))

\* --------------------------------------------------------------------- calls

\* interpreter.py:331-332: Call
EvalCall ==
    /\ Evaluating("Call")
    /\ Go(Eval(ctrl.e.callee), Push([f |-> "call_callee", e |-> ctrl.e]))

\* re.split(r'\{([^}]+)\}', format) followed, for the pieces in braces, by
\* Parser(scan(code)).parse_expression() (interpreter.py:145, 449): the
\* pieces of the format strings the programs use, texts at odd places and
\* parsed expressions at even ones.  The expressions are new nodes, which
\* the resolver never saw; id 0 is in no side table.
FormatPieces(format) ==
    CASE format = "{1/0}" ->
            <<[text |-> ""], [expr |-> Binary(Literal(Num(1)), "/", Literal(Num(0)))],
              [text |-> ""]>>
      [] format = "a={a}!" ->
            <<[text |-> "a="], [expr |-> Variable(0, "a")], [text |-> "!"]>>
      [] format = "{nope}{a}" ->
            <<[text |-> ""], [expr |-> Variable(0, "nope")], [text |-> ""],
              [expr |-> Variable(0, "a")], [text |-> ""]>>
      [] OTHER -> <<[text |-> format]>>

\* interpreter.py:448-455: the loop of _lox_printf from piece i on, up to the
\* next call of interpreter.eval or to print(formatted)
RECURSIVE PrintfLoop(_, _, _)
PrintfLoop(pieces, i, formatted) ==
    IF i > Len(pieces) THEN [eval |-> FALSE, formatted |-> formatted]
    ELSE IF i % 2 = 1 THEN PrintfLoop(pieces, i + 1, formatted \o pieces[i].text)
    ELSE [eval |-> TRUE, i |-> i, formatted |-> formatted]

\* the state after _lox_printf has run on from piece i, with continuation k
PrintfGo(pieces, i, formatted, k, reports, flag) ==
    LET r == PrintfLoop(pieces, i, formatted)
    IN /\ ctrl' = IF r.eval THEN Eval(pieces[r.i].expr) ELSE Val(Nil)
       /\ kont' = IF r.eval
                  THEN Append(k, [f |-> "printf", pieces |-> pieces, i |-> r.i,
                                  formatted |-> r.formatted])
                  ELSE k
       /\ out' = IF r.eval THEN out ELSE Append(out, r.formatted)
       /\ rt_reports' = reports
       /\ had_runtime_error' = flag
       /\ UNCHANGED <<env, envs, instances, crash, pc>>
       /\ UNCHANGED Fixed

\* the times time.time() may return
ClockTimes == {0, 1}

\* LoxFunction.__call__, interpreter.py:53-59: the parameter frame is a
\* child of the captured frame, and the body runs in it as a block
CallFrame(fn, args) == [enclosing |-> fn.enclosing, bindings |-> ParamBindings(fn.decl.params, args)]

CallFunction(fn, args, k, es, ins) ==
    /\ ctrl' = Done
    /\ kont' = k \o <<[f |-> "call", fn |-> fn],
                      [f |-> "block", stmts |-> fn.decl.body, i |-> 1, prev |-> env]>>
    /\ env' = Len(es) + 1
    /\ envs' = Append(es, CallFrame(fn, args))
    /\ instances' = ins
    /\ UNCHANGED <<out, rt_reports, had_runtime_error, crash, pc>>
    /\ UNCHANGED Fixed

\* LoxClass.__call__, interpreter.py:115-120
CallClass(cls, args, k) ==
    LET iid == Len(instances) + 1
        ins == Append(instances, [cls |-> cls, fields |-> EmptyMap])
        init == find_method(cls, "init")
    IN IF init = None
       THEN /\ ctrl' = Val(LoxInstance(iid))
            /\ kont' = k
            /\ instances' = ins
            /\ UNCHANGED <<env, envs, out, rt_reports, had_runtime_error, crash, pc>>
            /\ UNCHANGED Fixed
       ELSE CallFunction(Bound(init, Len(envs) + 1), args,
                         Append(k, [f |-> "class_call", instance |-> LoxInstance(iid)]),
                         Append(envs, BoundEnv(init, LoxInstance(iid))), ins)

\* native_fun_wrapper.__call__, interpreter.py:426-427, 439-455
CallNative(callee, args, k) ==
    IF callee.name = "clock"
    THEN \E now \in ClockTimes : Go(Val(Num(now)), k)
    ELSE IF args[1].t # "str"
    THEN Go(Raise(HostError("TypeError", "re.split")), k)
    ELSE PrintfGo(FormatPieces(args[1].v), 1, "", k, rt_reports, had_runtime_error)

\* a mutant of Invoke: a call with the wrong number of arguments gives nil
Invoke_lenient(callee, args, k) ==
    IF ~IsCallable(callee)
    THEN Go(Raise(LoxRuntimeError(")", "Can only call functions and classes")), k)
    ELSE IF Len(args) # arity(callee)
    THEN Go(Val(Nil), k)
    ELSE CASE callee.t = "fun" -> CallFunction(callee, args, k, envs, instances)
           [] callee.t = "class" -> CallClass(callee, args, k)
           [] callee.t = "native" -> CallNative(callee, args, k)

\* interpreter.py:336-341, once the callee and the arguments are evaluated
Invoke(callee, args, k) ==
    IF ~IsCallable(callee)
    THEN Go(Raise(LoxRuntimeError(")", "Can only call functions and classes")), k)
    ELSE IF Len(args) # arity(callee)
    THEN Go(Raise(LoxRuntimeError(")", "Expected " \o ToString(arity(callee))
                                        \o " arguments but got " \o ToString(Len(args)))), k)
    ELSE CASE callee.t = "fun" -> CallFunction(callee, args, k, envs, instances)
           [] callee.t = "class" -> CallClass(callee, args, k)
           [] callee.t = "native" -> CallNative(callee, args, k)

\* interpreter.py:332-334: the callee is evaluated, the arguments follow
ResumeCallee ==
    /\ Returned("call_callee")
    /\ IF Top.e.args = <<>> THEN Invoke(ctrl.v, <<>>, Pop)
       ELSE Go(Eval(Top.e.args[1]),
               Replace([f |-> "call_args", e |-> Top.e, callee |-> ctrl.v, args |-> <<>>]))

\* interpreter.py:334: the list comprehension over expr.args
ResumeArgument ==
    /\ Returned("call_args")
    /\ LET args == Append(Top.args, ctrl.v)
       IN IF Len(args) < Len(Top.e.args)
          THEN Go(Eval(Top.e.args[Len(args) + 1]), Replace([Top EXCEPT !.args = args]))
          ELSE Invoke(Top.callee, args, Pop)

\* a mutant of CallResult: an initializer returns like any other function
CallResult_carried(fn, v) == Ok(v)

\* what LoxFunction.__call__ returns for the value v the body left
\* (interpreter.py:61-63 after a Return, 65-67 after the end of the body)
CallResult(fn, v) ==
    IF fn.is_init THEN get_at(envs, fn.enclosing, 0, "this") ELSE Ok(v)

\* a mutant of ResumeCall: a body that ran to its end gives nil, also the
\* body of an initializer
ResumeCall_nil ==
    /\ Finished("call")
    /\ Go(Val(Nil), Pop)

\* interpreter.py:65-67: the body ran to its end
ResumeCall ==
    /\ Finished("call")
    /\ Go(CtrlOf(CallResult(Top.fn, Nil)), Pop)

\* interpreter.py:60-63: except Return
CatchReturn ==
    /\ Raising
    /\ Top.f = "call"
    /\ ctrl.exc.k = "Return"
    /\ Go(CtrlOf(CallResult(Top.fn, ctrl.exc.value)), Pop)

\* interpreter.py:119-120: the value of init is dropped, the instance returned
ResumeClassCall ==
    /\ Returned("class_call")
    /\ Go(Val(Top.instance), Pop)

\* interpreter.py:453: eval returned, the loop of _lox_printf goes on
ResumePrintf ==
    /\ Returned("printf")
    /\ PrintfGo(Top.pieces, Top.i + 1, Top.formatted \o _stringify(ctrl.v), Pop,
                rt_reports, had_runtime_error)

\* Logger.runtime_error: log.py:47-50 records the error, sets
\* had_runtime_error and returns; tests/log.py:20-21 raises the error again
SinkReturns == logger = "LoxLogger"

\* interpreter.py:147-149: eval catches the runtime error, reports it and
\* returns None, and _lox_printf goes on with "nil"
CatchInEval ==
    /\ Raising
    /\ Top.f = "printf"
    /\ ctrl.exc.k = "LoxRuntimeError"
    /\ IF SinkReturns
       THEN PrintfGo(Top.pieces, Top.i + 1, Top.formatted \o _stringify(Nil), Pop,
                     Append(rt_reports, ctrl.exc), TRUE)
       ELSE /\ ctrl' = ctrl
            /\ kont' = Pop
            /\ rt_reports' = Append(rt_reports, ctrl.exc)
            /\ UNCHANGED <<env, envs, instances, out, had_runtime_error, crash, pc>>
            /\ UNCHANGED Fixed

\* an exception passes a Python frame that has no handler for it
UnwindFrame ==
    /\ Raising
    /\ Top.f \notin {"block", "interpret"}
    /\ ~(Top.f = "call" /\ ctrl.exc.k = "Return")
    /\ ~(Top.f = "printf" /\ ctrl.exc.k = "LoxRuntimeError")
    /\ Go(ctrl, Pop)

\* ------------------------------------------------------------------ interpret

\* interpreter.py:138-139: the loop of interpret and its normal end
ResumeInterpret ==
    /\ Finished("interpret")
    /\ IF Top.i <= Len(Top.stmts)
       THEN Go(Exec(Top.stmts[Top.i]), Replace([Top EXCEPT !.i = @ + 1]))
       ELSE /\ pc' = "done"
            /\ ctrl' = Idle
            /\ kont' = <<>>
            /\ UNCHANGED <<env, envs, instances, out, rt_reports, had_runtime_error, crash>>
            /\ UNCHANGED Fixed

\* interpreter.py:140-141: except LoxRuntimeError
CatchRuntimeError ==
    /\ Raising
    /\ Top.f = "interpret"
    /\ ctrl.exc.k = "LoxRuntimeError"
    /\ rt_reports' = Append(rt_reports, ctrl.exc)
    /\ had_runtime_error' = IF SinkReturns THEN TRUE ELSE had_runtime_error
    /\ pc' = IF SinkReturns THEN "done" ELSE "crashed"
    /\ crash' = IF SinkReturns THEN crash ELSE "LoxRuntimeError"
    /\ ctrl' = Idle
    /\ kont' = <<>>
    /\ UNCHANGED <<env, envs, instances, out>>
    /\ UNCHANGED Fixed

\* any other exception leaves interpret (Return is a BaseException, and the
\* host's errors are not LoxRuntimeError)
Uncaught ==
    /\ Raising
    /\ Top.f = "interpret"
    /\ ctrl.exc.k # "LoxRuntimeError"
    /\ pc' = "crashed"
    /\ crash' = ctrl.exc.k
    /\ ctrl' = Idle
    /\ kont' = <<>>
    /\ UNCHANGED <<env, envs, instances, out, rt_reports, had_runtime_error>>
    /\ UNCHANGED Fixed

(***************************************************************************)
(* Programs.  Each is the statement list parse() returns for the source    *)
(* quoted above it; the ids are the identities of the nodes that can be    *)
(* side-table keys.                                                        *)
(***************************************************************************)

\* most calls of the counter closure in the counter programs
MaxCalls == 3

N(n) == Literal(Num(n))
S(s) == Literal(Str(s))
V(id, name) == Variable(id, name)
CallStmt(id, name) == ExprStmt(Call(V(id, name), <<>>))

\* fun makeCounter() { var i = 0; fun count() { i = i + 1; print i; } return count; }
\* var c = makeCounter(); c(); ... c();   (n calls)
\* var d = makeCounter(); d(); c();
CounterCalls(n) == [i \in 1..n |-> CallStmt(100 + i, "c")]
CounterProgram(n) ==
    <<FunctionStmt("makeCounter", <<>>,
        <<VarStmt("i", N(0)),
          FunctionStmt("count", <<>>,
            <<ExprStmt(Assign(1, "i", Binary(V(2, "i"), "+", N(1)))),
              PrintStmt(V(3, "i"))>>),
          ReturnStmt(V(4, "count"))>>),
      VarStmt("c", Call(V(5, "makeCounter"), <<>>))>>
    \o CounterCalls(n)
    \o <<VarStmt("d", Call(V(6, "makeCounter"), <<>>)),
         CallStmt(7, "d"),
         CallStmt(8, "c")>>

\* var get; var inc;
\* fun make() { var i = 0; fun g() { print i; } fun s() { i = i + 1; } get = g; inc = s; }
\* make(); inc(); get(); inc(); get(); make(); get();
SharedFrameProgram ==
    <<VarStmt("get", None), VarStmt("inc", None),
      FunctionStmt("make", <<>>,
        <<VarStmt("i", N(0)),
          FunctionStmt("g", <<>>, <<PrintStmt(V(1, "i"))>>),
          FunctionStmt("s", <<>>, <<ExprStmt(Assign(2, "i", Binary(V(3, "i"), "+", N(1))))>>),
          ExprStmt(Assign(4, "get", V(5, "g"))),
          ExprStmt(Assign(6, "inc", V(7, "s")))>>),
      CallStmt(8, "make"), CallStmt(9, "inc"), CallStmt(10, "get"),
      CallStmt(11, "inc"), CallStmt(12, "get"), CallStmt(13, "make"), CallStmt(14, "get")>>

\* var a = "global"; { fun showA() { print a; } showA(); var a = "block"; showA(); }
\* and, with local = TRUE, the same inside one more block, so that the outer
\* a is a local: { var a = "global"; { ... } }
LexicalBlock ==
    Block(<<FunctionStmt("showA", <<>>, <<PrintStmt(V(1, "a"))>>),
            CallStmt(2, "showA"),
            VarStmt("a", S("block")),
            CallStmt(3, "showA")>>)
LexicalProgram(local) ==
    IF local THEN <<Block(<<VarStmt("a", S("global")), LexicalBlock>>)>>
    ELSE <<VarStmt("a", S("global")), LexicalBlock>>

\* var a = "outer"; { var a = a; print a; }     (outer = TRUE, in_fun = FALSE)
\* { var a = a; print a; }                      (outer = FALSE)
\* var a = "outer"; fun f() { var a = a; print a; } f();   (in_fun = TRUE)
SelfInitBody == <<VarStmt("a", V(1, "a")), PrintStmt(V(2, "a"))>>
SelfInitProgram(outer, in_fun) ==
    (IF outer THEN <<VarStmt("a", S("outer"))>> ELSE <<>>)
    \o (IF in_fun THEN <<FunctionStmt("f", <<>>, SelfInitBody), CallStmt(3, "f")>>
        ELSE <<Block(SelfInitBody)>>)

\* var a = 1; { var a = a + 1; print a; } print a;      (tests/test_state.py:22-29)
ScopeShadowProgram ==
    <<VarStmt("a", N(1)),
      Block(<<VarStmt("a", Binary(V(1, "a"), "+", N(1))), PrintStmt(V(2, "a"))>>),
      PrintStmt(V(3, "a"))>>

\* var a; print a = 1;
PrintAssignProgram == <<VarStmt("a", None), PrintStmt(Assign(1, "a", N(1)))>>

\* var a; var b; a = b = 2; print a; print b;     and the same in a block
ChainBody ==
    <<VarStmt("a", None), VarStmt("b", None),
      ExprStmt(Assign(1, "a", Assign(2, "b", N(2)))),
      PrintStmt(V(3, "a")), PrintStmt(V(4, "b"))>>
ChainAssignProgram(local) == IF local THEN <<Block(ChainBody)>> ELSE ChainBody

\* a statement that raises a runtime error, at one of the places of where:
\*   "top"    print "x" - 1;
\*   "block"  { { print "x" - 1; } }
\*   "call"   fun f() { print "x" - 1; } f();
\*   "init"   class A { init() { print "x" - 1; } } A();
\*   "printf" printf("{1/0}");
\*   "loop"   while (true) { print "x" - 1; }
Faulty == PrintStmt(Binary(S("x"), "-", N(1)))
FaultAt(where) ==
    CASE where = "top" -> <<Faulty>>
      [] where = "block" -> <<Block(<<Block(<<Faulty>>)>>)>>
      [] where = "call" -> <<FunctionStmt("f", <<>>, <<Faulty>>), CallStmt(1, "f")>>
      [] where = "init" ->
            <<Class("A", None, <<FunctionStmt("init", <<>>, <<Faulty>>)>>),
              CallStmt(1, "A")>>
      [] where = "printf" -> <<ExprStmt(Call(V(1, "printf"), <<S("{1/0}")>>))>>
      [] where = "loop" -> <<WhileStmt(Literal(Bool(TRUE)), Block(<<Faulty>>))>>

FaultPlaces == {"top", "block", "call", "init", "printf", "loop"}

\* print 1; <the faulty statement>; print 2;
RuntimeErrorProgram(where) == <<PrintStmt(N(1))>> \o FaultAt(where) \o <<PrintStmt(N(2))>>

\* fun f() { var i = 0; while (true) { { if (i == 2) return i; } i = i + 1; }
\*           print "unreachable"; }
\* fun g() { { return; } print "unreachable"; }
\* fun h() { return f() + 1; print "unreachable"; }
\* print f(); print g(); print h(); print "after";
ReturnProgram ==
    <<FunctionStmt("f", <<>>,
        <<VarStmt("i", N(0)),
          WhileStmt(Literal(Bool(TRUE)),
            Block(<<Block(<<IfStmt(Binary(V(1, "i"), "==", N(2)),
                                   ReturnStmt(V(2, "i")), None)>>),
                    ExprStmt(Assign(3, "i", Binary(V(4, "i"), "+", N(1))))>>)),
          PrintStmt(S("unreachable"))>>),
      FunctionStmt("g", <<>>, <<Block(<<ReturnStmt(None)>>), PrintStmt(S("unreachable"))>>),
      FunctionStmt("h", <<>>,
        <<ReturnStmt(Binary(Call(V(5, "f"), <<>>), "+", N(1))), PrintStmt(S("unreachable"))>>),
      PrintStmt(Call(V(6, "f"), <<>>)),
      PrintStmt(Call(V(7, "g"), <<>>)),
      PrintStmt(Call(V(8, "h"), <<>>)),
      PrintStmt(S("after"))>>

\* class A { init() { this.x = 1; return; print "unreachable"; } }
\* var a = A(); print a.x; var b = a.init(); print b == a;
InitReturnProgram ==
    <<Class("A", None,
        <<FunctionStmt("init", <<>>,
            <<ExprStmt(Set(This(1), "x", N(1))), ReturnStmt(None),
              PrintStmt(S("unreachable"))>>)>>),
      VarStmt("a", Call(V(2, "A"), <<>>)),
      PrintStmt(Get(V(3, "a"), "x")),
      VarStmt("b", Call(Get(V(4, "a"), "init"), <<>>)),
      PrintStmt(Binary(V(5, "b"), "==", V(6, "a")))>>

\* class A { init() { this.x = 1; } }
\* var a = A(); print a.x; var b = a.init(); print b == a;
InitFallOffProgram ==
    <<Class("A", None,
        <<FunctionStmt("init", <<>>, <<ExprStmt(Set(This(1), "x", N(1)))>>)>>),
      VarStmt("a", Call(V(2, "A"), <<>>)),
      PrintStmt(Get(V(3, "a"), "x")),
      VarStmt("b", Call(Get(V(4, "a"), "init"), <<>>)),
      PrintStmt(Binary(V(5, "b"), "==", V(6, "a")))>>

\* class A { init(n) { this.n = n; } who() { print this.n; } }
\* class B < A {}
\* var a = B(1); var b = A(2);
\* var m = a.who; m();
\* fun call(f) { f(); } call(a.who);
\* b.other = a.who; b.other();
\* b.who(); m();
BoundMethodProgram ==
    <<Class("A", None,
        <<FunctionStmt("init", <<"n">>, <<ExprStmt(Set(This(1), "n", V(2, "n")))>>),
          FunctionStmt("who", <<>>, <<PrintStmt(Get(This(3), "n"))>>)>>),
      Class("B", V(4, "A"), <<>>),
      VarStmt("a", Call(V(5, "B"), <<N(1)>>)),
      VarStmt("b", Call(V(6, "A"), <<N(2)>>)),
      VarStmt("m", Get(V(7, "a"), "who")),
      CallStmt(8, "m"),
      FunctionStmt("call", <<"f">>, <<CallStmt(9, "f")>>),
      ExprStmt(Call(V(10, "call"), <<Get(V(11, "a"), "who")>>)),
      ExprStmt(Set(V(12, "b"), "other", Get(V(13, "a"), "who"))),
      ExprStmt(Call(Get(V(14, "b"), "other"), <<>>)),
      ExprStmt(Call(Get(V(15, "b"), "who"), <<>>)),
      CallStmt(16, "m")>>

\* class A { greet() { print "A"; } }
\* class B < A { greet() { super.greet(); print "B"; } }
\* B().greet();
SuperProgram ==
    <<Class("A", None, <<FunctionStmt("greet", <<>>, <<PrintStmt(S("A"))>>)>>),
      Class("B", V(1, "A"),
        <<FunctionStmt("greet", <<>>,
            <<ExprStmt(Call(Super(2, "greet"), <<>>)), PrintStmt(S("B"))>>)>>),
      ExprStmt(Call(Get(Call(V(3, "B"), <<>>), "greet"), <<>>))>>

\* var a = 1; <again> print a;   at top level, or in a block when local, with
\* <again> one of  var a = 2;  fun a() {}  class a {}     (tests/test_bindings.py:36-45)
\* fun f(a, a) { print a; } f(1, 2);                    (kind = "param")
\* fun f(a) { var a = 2; print a; } f(1);               (kind = "param_body")
RedeclareKinds == {"var", "fun", "class", "param", "param_body"}
RedeclareBody(kind) ==
    CASE kind = "var" -> <<VarStmt("a", N(1)), VarStmt("a", N(2)), PrintStmt(V(1, "a"))>>
      [] kind = "fun" ->
            <<VarStmt("a", N(1)), FunctionStmt("a", <<>>, <<>>), PrintStmt(V(1, "a"))>>
      [] kind = "class" ->
            <<VarStmt("a", N(1)), Class("a", None, <<>>), PrintStmt(V(1, "a"))>>
      [] kind = "param" ->
            <<FunctionStmt("f", <<"a", "a">>, <<PrintStmt(V(1, "a"))>>),
              ExprStmt(Call(V(2, "f"), <<N(1), N(2)>>))>>
      [] kind = "param_body" ->
            <<FunctionStmt("f", <<"a">>, <<VarStmt("a", N(2)), PrintStmt(V(1, "a"))>>),
              ExprStmt(Call(V(2, "f"), <<N(1)>>))>>
RedeclareProgram(kind, local) ==
    IF local THEN <<Block(RedeclareBody(kind))>> ELSE RedeclareBody(kind)

\* programs with one or two return statements (tests/test_bindings.py:48-54,
\* tests/test_classes.py:82-92)
InitOf(body) == Class("A", None, <<FunctionStmt("init", <<>>, body)>>)
ReturnPlaces ==
    {"top", "top_value", "top_block", "after_fun", "fun", "method", "init_value",
     "init_bare", "init_nested", "init_after_nested", "method_after_init"}
ReturnCheckProgram(where) ==
    CASE where = "top" -> <<ReturnStmt(None)>>                       \* return;
      [] where = "top_value" -> <<ReturnStmt(N(1))>>                 \* return 1;
      [] where = "top_block" ->                                      \* { if (true) return; }
            <<Block(<<IfStmt(Literal(Bool(TRUE)), ReturnStmt(None), None)>>)>>
      [] where = "after_fun" ->                       \* fun f() { return 1; } return 2;
            <<FunctionStmt("f", <<>>, <<ReturnStmt(N(1))>>), ReturnStmt(N(2))>>
      [] where = "fun" ->                             \* fun f() { return 1; } print f();
            <<FunctionStmt("f", <<>>, <<ReturnStmt(N(1))>>),
              PrintStmt(Call(V(1, "f"), <<>>))>>
      [] where = "method" ->                 \* class A { m() { return 1; } } print A().m();
            <<Class("A", None, <<FunctionStmt("m", <<>>, <<ReturnStmt(N(1))>>)>>),
              PrintStmt(Call(Get(Call(V(1, "A"), <<>>), "m"), <<>>))>>
      [] where = "init_value" -> <<InitOf(<<ReturnStmt(N(1))>>)>>   \* class A { init() { return 1; } }
      [] where = "init_bare" ->                       \* class A { init() { return; } } A();
            <<InitOf(<<ReturnStmt(None)>>), ExprStmt(Call(V(1, "A"), <<>>))>>
      [] where = "init_nested" ->
            \* class A { init() { fun f() { return 1; } print f(); } } A();
            <<InitOf(<<FunctionStmt("f", <<>>, <<ReturnStmt(N(1))>>),
                       PrintStmt(Call(V(1, "f"), <<>>))>>),
              ExprStmt(Call(V(2, "A"), <<>>))>>
      [] where = "init_after_nested" ->
            \* class A { init() { fun f() { return 1; } return 2; } }
            <<InitOf(<<FunctionStmt("f", <<>>, <<ReturnStmt(N(1))>>), ReturnStmt(N(2))>>)>>
      [] where = "method_after_init" ->
            \* class A { init() {} m() { return 1; } } print A().m();
            <<Class("A", None, <<FunctionStmt("init", <<>>, <<>>),
                                 FunctionStmt("m", <<>>, <<ReturnStmt(N(1))>>)>>),
              PrintStmt(Call(Get(Call(V(1, "A"), <<>>), "m"), <<>>))>>

\* programs that use this (tests/test_classes.py:64-79)
PrintThis == PrintStmt(This(1))
MethodOf(body) == Class("A", None, <<FunctionStmt("m", <<>>, body)>>)
CallM == ExprStmt(Call(Get(Call(V(3, "A"), <<>>), "m"), <<>>))
ThisPlaces ==
    {"top", "fun", "method", "method_nested", "after_class", "after_inner_class",
     "class_in_fun"}
ThisCheckProgram(where) ==
    CASE where = "top" -> <<PrintThis>>                              \* print this;
      [] where = "fun" -> <<FunctionStmt("f", <<>>, <<PrintThis>>)>>  \* fun f() { print this; }
      [] where = "method" ->                      \* class A { m() { print this; } } A().m();
            <<MethodOf(<<PrintThis>>), CallM>>
      [] where = "method_nested" ->
            \* class A { m() { fun f() { print this; } f(); } } A().m();
            <<MethodOf(<<FunctionStmt("f", <<>>, <<PrintThis>>), CallStmt(2, "f")>>), CallM>>
      [] where = "after_class" ->                 \* class A { m() {} } print this;
            <<MethodOf(<<>>), PrintThis>>
      [] where = "after_inner_class" ->
            \* class A { m() { class B {} print this; } } A().m();
            <<MethodOf(<<Class("B", None, <<>>), PrintThis>>), CallM>>
      [] where = "class_in_fun" ->                \* fun f() { class B {} print this; }
            <<FunctionStmt("f", <<>>, <<Class("B", None, <<>>), PrintThis>>)>>

\* programs with one call whose callee or argument count may be wrong
\* (tests/test_control.py:24-40)
FunF == FunctionStmt("f", <<"a">>, <<PrintStmt(V(1, "a"))>>)
CallPlaces ==
    {"string", "instance", "args_first", "too_few", "too_many", "class_init",
     "class_noinit", "native", "method", "ok"}
CallCheckProgram(where) ==
    CASE where = "string" -> <<ExprStmt(Call(S("not a function"), <<>>))>>  \* "not a function"();
      [] where = "instance" ->                              \* class A {} A()();
            <<Class("A", None, <<>>), ExprStmt(Call(Call(V(2, "A"), <<>>), <<>>))>>
      [] where = "args_first" ->                  \* fun g() { print "arg"; } nil(g());
            <<FunctionStmt("g", <<>>, <<PrintStmt(S("arg"))>>),
              ExprStmt(Call(Literal(Nil), <<Call(V(2, "g"), <<>>)>>))>>
      [] where = "too_few" -> <<FunF, ExprStmt(Call(V(2, "f"), <<>>))>>     \* f();
      [] where = "too_many" -> <<FunF, ExprStmt(Call(V(2, "f"), <<N(1), N(2)>>))>>  \* f(1, 2);
      [] where = "ok" -> <<FunF, ExprStmt(Call(V(2, "f"), <<N(1)>>))>>      \* f(1);
      [] where = "class_init" ->                  \* class A { init(x) { print x; } } A();
            <<Class("A", None, <<FunctionStmt("init", <<"x">>, <<PrintStmt(V(1, "x"))>>)>>),
              ExprStmt(Call(V(2, "A"), <<>>))>>
      [] where = "class_noinit" ->                          \* class A {} A(1);
            <<Class("A", None, <<>>), ExprStmt(Call(V(2, "A"), <<N(1)>>))>>
      [] where = "native" -> <<ExprStmt(Call(V(2, "clock"), <<N(1)>>))>>    \* clock(1);
      [] where = "method" ->                      \* class A { m(x) { print x; } } A().m();
            <<Class("A", None, <<FunctionStmt("m", <<"x">>, <<PrintStmt(V(1, "x"))>>)>>),
              ExprStmt(Call(Get(Call(V(2, "A"), <<>>), "m"), <<>>))>>

\* class Oops < Oops {}
SelfInheritProgram == <<Class("Oops", V(1, "Oops"), <<>>)>>

\* class A { name() { return "A"; } }
\* { var x = 1; class B < A { m(y) { print this.name(); print y; print x; } } B().m(2); }
\*   (sub = TRUE; with sub = FALSE the class is `class B { ... }` and the
\*    method prints y and x only)
MethodLocalProgram(sub) ==
    <<Class("A", None, <<FunctionStmt("name", <<>>, <<ReturnStmt(S("A"))>>)>>),
      Block(<<VarStmt("x", N(1)),
              Class("B", IF sub THEN V(1, "A") ELSE None,
                <<FunctionStmt("m", <<"y">>,
                    (IF sub THEN <<PrintStmt(Call(Get(This(2), "name"), <<>>))>> ELSE <<>>)
                    \o <<PrintStmt(V(3, "y")), PrintStmt(V(4, "x"))>>)>>),
              ExprStmt(Call(Get(Call(V(5, "B"), <<>>), "m"), <<N(2)>>))>>)>>

\* var a = 1; var t = clock() >= 0; printf("a={a}!");
\* if (!(a == 1) or nil) print "then"; else print -a;
\* if (a and false) print "then";
\* var o = "s"; o.f = 1;           (a runtime error: only instances have fields)
MiscProgram ==
    <<VarStmt("a", N(1)),
      VarStmt("t", Binary(Call(V(1, "clock"), <<>>), ">=", N(0))),
      ExprStmt(Call(V(2, "printf"), <<S("a={a}!")>>)),
      IfStmt(Logical(Unary("!", Grouping(Binary(V(3, "a"), "==", N(1)))), "or",
                     Literal(Nil)),
             PrintStmt(S("then")), PrintStmt(Unary("-", V(4, "a")))),
      IfStmt(Logical(V(5, "a"), "and", Literal(Bool(FALSE))), PrintStmt(S("then")), None),
      VarStmt("o", S("s")),
      ExprStmt(Set(V(6, "o"), "f", N(1)))>>

\* class A {} class B < NotAClass {}  with  var NotAClass = "no";
\* (tests/test_classes.py:102-110)
BadSuperclassProgram ==
    <<VarStmt("NotAClass", S("no")), Class("Sub", V(1, "NotAClass"), <<>>)>>

\* programs whose failing statement is nested in blocks, calls and class
\* declarations:
\*   { var a = 1; class A { m() { { print a; print "x" - 1; } } } { A().m(); } }
\*   class A {} { { class B < A { m() { return 1; } } print B().m(); class C < nope {} } }
FrameRestorePlaces == {"method", "superclass"}
FrameRestoreProgram(where) ==
    IF where = "method"
    THEN <<Block(<<VarStmt("a", N(1)),
                   Class("A", None,
                         <<FunctionStmt("m", <<>>, <<Block(<<PrintStmt(V(1, "a")), Faulty>>)>>)>>),
                   Block(<<ExprStmt(Call(Get(Call(V(2, "A"), <<>>), "m"), <<>>))>>)>>)>>
    ELSE <<Class("A", None, <<>>),
           Block(<<Block(<<Class("B", V(1, "A"),
                                 <<FunctionStmt("m", <<>>, <<ReturnStmt(N(1))>>)>>),
                           PrintStmt(Call(Get(Call(V(2, "B"), <<>>), "m"), <<>>)),
                           Class("C", V(3, "nope"), <<>>)>>)>>)>>

\* fun t(x) { print x; return x; }  print t(L) or t(R);   (or: and)
LogicalLefts == {Nil, Bool(FALSE), Bool(TRUE), Num(0), Str("a")}
LogicalRights == {Str("yes"), Str("b"), Str("x")}
LogicalProgram(op, left, right) ==
    <<FunctionStmt("t", <<"x">>, <<PrintStmt(V(1, "x")), ReturnStmt(V(2, "x"))>>),
      PrintStmt(Logical(Call(V(3, "t"), <<Literal(left)>>), op,
                        Call(V(4, "t"), <<Literal(right)>>)))>>

\* fun t(x) { print x; return x; } followed by one expression whose operands
\* are calls of t
OrderKinds == {"binary", "binary_fault", "call", "call_fault", "assign", "set", "set_fault"}
T(id, x) == Call(V(id, "t"), <<x>>)
OrderProgram(kind) ==
    <<FunctionStmt("t", <<"x">>, <<PrintStmt(V(1, "x")), ReturnStmt(V(2, "x"))>>)>> \o
    CASE kind = "binary" -> <<PrintStmt(Binary(T(3, N(1)), "-", T(4, N(2))))>>  \* print t(1) - t(2);
      [] kind = "binary_fault" ->                           \* print t("s") - t(nil);
            <<PrintStmt(Binary(T(3, S("s")), "-", T(4, Literal(Nil))))>>
      [] kind = "call" ->            \* fun f(a, b) { print a + b; } t(f)(t(1), t(2));
            <<FunctionStmt("f", <<"a", "b">>, <<PrintStmt(Binary(V(5, "a"), "+", V(6, "b")))>>),
              ExprStmt(Call(T(3, V(7, "f")), <<T(4, N(1)), T(8, N(2))>>))>>
      [] kind = "call_fault" ->                             \* t(nil)(t(1), t(2));
            <<ExprStmt(Call(T(3, Literal(Nil)), <<T(4, N(1)), T(8, N(2))>>))>>
      [] kind = "assign" ->  \* var a = 0; fun g() { print a; return 1; } a = g(); print a;
            <<VarStmt("a", N(0)),
              FunctionStmt("g", <<>>, <<PrintStmt(V(5, "a")), ReturnStmt(N(1))>>),
              ExprStmt(Assign(6, "a", Call(V(7, "g"), <<>>))),
              PrintStmt(V(8, "a"))>>
      [] kind = "set" ->                          \* class A {} t(A()).x = t(1);
            <<Class("A", None, <<>>),
              ExprStmt(Set(T(3, Call(V(5, "A"), <<>>)), "x", T(4, N(1))))>>
      [] kind = "set_fault" ->                              \* t(nil).x = t(1);
            <<ExprStmt(Set(T(3, Literal(Nil)), "x", T(4, N(1))))>>

\* programs that read and write names of the global frame from inner frames
GlobalPlaces == {"assign_deep", "late", "undefined_assign", "undefined_read"}
GlobalProgram(where) ==
    CASE where = "assign_deep" ->
            \* var a = 1; var b = 1;
            \* fun f() { var b = 0; { var c = 0; a = 2; print a; print b; } }
            \* f(); print a; print b;
            <<VarStmt("a", N(1)), VarStmt("b", N(1)),
              FunctionStmt("f", <<>>,
                <<VarStmt("b", N(0)),
                  Block(<<VarStmt("c", N(0)),
                          ExprStmt(Assign(1, "a", N(2))),
                          PrintStmt(V(2, "a")), PrintStmt(V(3, "b"))>>)>>),
              CallStmt(4, "f"), PrintStmt(V(5, "a")), PrintStmt(V(6, "b"))>>
      [] where = "late" ->              \* fun f() { { print g; } } var g = 1; f();
            <<FunctionStmt("f", <<>>, <<Block(<<PrintStmt(V(1, "g"))>>)>>),
              VarStmt("g", N(1)), CallStmt(2, "f")>>
      [] where = "undefined_assign" ->  \* var a = 1; { var b = 0; { nope = 1; } } print a;
            <<VarStmt("a", N(1)),
              Block(<<VarStmt("b", N(0)), Block(<<ExprStmt(Assign(1, "nope", N(1)))>>)>>),
              PrintStmt(V(2, "a"))>>
      [] where = "undefined_read" ->    \* fun f() { { print nope; } } f();
            <<FunctionStmt("f", <<>>, <<Block(<<PrintStmt(V(1, "nope"))>>)>>),
              CallStmt(2, "f")>>

\* print L == R; print L != R;
EqualityOperands == {Nil, Bool(TRUE), Bool(FALSE), Num(0), Num(1), Str("1"), Str("true")}
EqualityProgram(left, right) ==
    <<PrintStmt(Binary(Literal(left), "==", Literal(right))),
      PrintStmt(Binary(Literal(left), "!=", Literal(right)))>>

Programs ==
    [name : {"counter"}, n : 1..MaxCalls]
    \cup [name : {"lexical", "chain", "method_local"}, flag : BOOLEAN]
    \cup [name : {"selfinit"}, outer : BOOLEAN, in_fun : BOOLEAN]
    \cup [name : {"fault"}, where : FaultPlaces]
    \cup [name : {"call_check"}, where : CallPlaces]
    \cup [name : {"frame_restore"}, where : FrameRestorePlaces]
    \cup [name : {"logical"}, op : {"or", "and"}, left : LogicalLefts, right : LogicalRights]
    \cup [name : {"order"}, kind : OrderKinds]
    \cup [name : {"global"}, where : GlobalPlaces]
    \cup [name : {"equality"}, left : EqualityOperands, right : EqualityOperands]
    \cup [name : {"this_check"}, where : ThisPlaces]
    \cup [name : {"return_check"}, where : ReturnPlaces]
    \cup [name : {"redeclare"}, kind : RedeclareKinds, local : BOOLEAN]
    \cup [name : {"shared", "shadow", "print_assign", "return", "init_return", "init_falloff", "bound_method", "super", "self_inherit",
                  "misc", "bad_superclass"}]

\* the statements of a program
Statements(p) ==
    CASE p.name = "counter" -> CounterProgram(p.n)
      [] p.name = "lexical" -> LexicalProgram(p.flag)
      [] p.name = "chain" -> ChainAssignProgram(p.flag)
      [] p.name = "method_local" -> MethodLocalProgram(p.flag)
      [] p.name = "selfinit" -> SelfInitProgram(p.outer, p.in_fun)
      [] p.name = "fault" -> RuntimeErrorProgram(p.where)
      [] p.name = "shared" -> SharedFrameProgram
      [] p.name = "shadow" -> ScopeShadowProgram
      [] p.name = "print_assign" -> PrintAssignProgram
      [] p.name = "return" -> ReturnProgram
      [] p.name = "init_return" -> InitReturnProgram
      [] p.name = "init_falloff" -> InitFallOffProgram
      [] p.name = "bound_method" -> BoundMethodProgram
      [] p.name = "super" -> SuperProgram
      [] p.name = "call_check" -> CallCheckProgram(p.where)
      [] p.name = "frame_restore" -> FrameRestoreProgram(p.where)
      [] p.name = "logical" -> LogicalProgram(p.op, p.left, p.right)
      [] p.name = "order" -> OrderProgram(p.kind)
      [] p.name = "global" -> GlobalProgram(p.where)
      [] p.name = "equality" -> EqualityProgram(p.left, p.right)
      [] p.name = "this_check" -> ThisCheckProgram(p.where)
      [] p.name = "return_check" -> ReturnCheckProgram(p.where)
      [] p.name = "redeclare" -> RedeclareProgram(p.kind, p.local)
      [] p.name = "self_inherit" -> SelfInheritProgram
      [] p.name = "misc" -> MiscProgram
      [] p.name = "bad_superclass" -> BadSuperclassProgram

(***************************************************************************)
(* The drivers                                                             *)
(***************************************************************************)

\* interpreter.py:127-134: Interpreter(logger); the global frame is frame 1
\* and holds the native functions (interpreter.py:412, 433-436)
Globals ==
    [enclosing |-> 0,
     bindings |-> Put(Put(EmptyMap, "clock", NativeFun("clock")),
                      "printf", NativeFun("printf"))]

Init ==
    /\ source = <<>> /\ start = 0 /\ pos = 0 /\ tokens = <<>>
    /\ scan_errors = <<>> /\ scan_pc = "idle"
    /\ driver \in {"run", "run_test"}
    /\ logger \in {"LoxLogger", "MockLogger"}
    /\ prog \in Programs
    /\ pc = "start"
    /\ locals = EmptyMap
    /\ errors = <<>>
    /\ had_error = FALSE
    /\ envs = <<Globals>>
    /\ env = 1
    /\ instances = <<>>
    /\ kont = <<>>
    /\ ctrl = Idle
    /\ out = <<>>
    /\ rt_reports = <<>>
    /\ had_runtime_error = FALSE
    /\ crash = "none"
    /\ p_tokens = <<>> /\ curr = 0 /\ statements = <<>> /\ parse_pc = "idle"

\* __init__.py:41-47, run(expr, logger): after scanning and parsing, the
\* sink's had_error is read, which tests/log.py's MockLogger does not have
\* (AttributeError), and interpreter.interpret(expr, logger) is called with
\* one argument more than interpret takes (interpreter.py:136; TypeError).
\* The resolver is not called, and no statement is executed.
Run ==
    /\ pc = "start"
    /\ driver = "run"
    /\ pc' = "crashed"
    /\ crash' = IF logger = "MockLogger" THEN "AttributeError" ELSE "TypeError"
    /\ UNCHANGED <<env, envs, instances, out, rt_reports, had_runtime_error, ctrl, kont>>
    /\ UNCHANGED Fixed

\* tests/__init__.py:9-16, run_test: resolve(logger, interpreter, stmts),
\* then interpreter.interpret(stmts), whatever the sink was told; a sink
\* that raises ends the run in the resolver
RunTest ==
    /\ pc = "start"
    /\ driver = "run_test"
    /\ LET rs == ResolveProgram(logger, Statements(prog))
       IN /\ locals' = rs.locals
          /\ errors' = rs.errors
          /\ had_error' = (logger = "LoxLogger" /\ rs.errors # <<>>)
          /\ pc' = IF rs.raised THEN "crashed" ELSE "interpret"
          /\ crash' = IF rs.raised THEN "LoxSyntaxError" ELSE crash
          /\ kont' = IF rs.raised THEN <<>>
                     ELSE <<[f |-> "interpret", stmts |-> Statements(prog), i |-> 1]>>
          /\ ctrl' = IF rs.raised THEN Idle ELSE Done
    /\ UNCHANGED <<env, envs, instances, out, rt_reports, had_runtime_error>>
    /\ UNCHANGED <<svars, pvars, driver, logger, prog>>

Next ==
    \/ Run \/ RunTest
    \/ ResumeInterpret \/ CatchRuntimeError \/ Uncaught
    \/ ExecBlock \/ ResumeBlock \/ UnwindBlock
    \/ ExecClass \/ ResumeClassSuper
    \/ ExecExprStmt \/ ResumeExprStmt
    \/ ExecFunctionStmt
    \/ ExecIf \/ ResumeIf
    \/ ExecPrint \/ ResumePrint
    \/ ExecReturn \/ ResumeReturn
    \/ ExecVar \/ ResumeVar
    \/ ExecWhile \/ ResumeWhileCond \/ ResumeWhileBody
    \/ EvalLiteral \/ EvalGrouping \/ EvalVariable
    \/ EvalAssign \/ ResumeAssign
    \/ EvalBinary \/ ResumeBinaryLeft \/ ResumeBinaryRight
    \/ EvalLogical \/ ResumeLogical
    \/ EvalUnary \/ ResumeUnary
    \/ EvalGet \/ ResumeGet
    \/ EvalSet \/ ResumeSetObject \/ ResumeSetValue
    \/ EvalSuper
    \/ EvalCall \/ ResumeCallee \/ ResumeArgument
    \/ ResumeCall \/ CatchReturn \/ ResumeClassCall
    \/ ResumePrintf \/ CatchInEval
    \/ UnwindFrame

Spec == Init /\ [][Next]_vars

(***************************************************************************)
(* Parser (parser.py)                                                      *)
(*                                                                         *)
(* A parser state is a record: cur, the index in the token stream of       *)
(* Parser._curr; errs, the parse_error calls made so far; exc, the         *)
(* exception being propagated ("none" when there is none); lg, the sink;   *)
(* node, what the method that just returned gave back.  A method applied   *)
(* to a state that carries an exception returns the state as it is.  A     *)
(* node made from an identifier token has the token's index as identity.  *)
(***************************************************************************)

\* a token of the stream the parser reads (token.py:63-69); the offset
\* is given when the stream is made
Tok(type, lexeme) == [type |-> type, lexeme |-> lexeme, literal |-> NoLiteral, offset |-> 0]
NumberTok(n) == [type |-> "NUMBER", lexeme |-> ToString(n), literal |-> Num(n), offset |-> 0]
StringTok(s) ==
    [type |-> "STRING", lexeme |-> "\"" \o s \o "\"", literal |-> Str(s), offset |-> 0]
Ident(name) == Tok("IDENTIFIER", name)
EOFTok == Tok("EOF", "")

\* parser.py:21-24: Parser(tokens, logger)
NewParser(lg) == [cur |-> 1, errs |-> <<>>, exc |-> "none", lg |-> lg, node |-> None]

Failed(ps) == ps.exc # "none"
Yield(ps, node) == IF Failed(ps) THEN ps ELSE [ps EXCEPT !.node = node]

\* parser.py:377-378
_check(toks, ps, type) == toks[ps.cur].type = type

\* parser.py:386-387
Parser_at_end(toks, ps) == _check(toks, ps, "EOF")

\* parser.py:380-384: the state after _advance; the token it returns is the
\* one at the index of the state before
_advance(toks, ps) ==
    IF Failed(ps) \/ Parser_at_end(toks, ps) THEN ps ELSE [ps EXCEPT !.cur = @ + 1]

\* parser.py:394-396: the sink is told (log.py:40-45 returns, tests/log.py
\* raises LoxSyntaxError), and a ParseError is made, which the caller may raise
_error(ps, token, error_msg) ==
    IF Failed(ps) THEN ps
    ELSE [ps EXCEPT !.errs = Append(@, [token |-> token.lexeme, offset |-> token.offset,
                                        message |-> error_msg]),
                    !.exc = IF ps.lg = "MockLogger" THEN "LoxSyntaxError" ELSE "none",
                    !.node = IF ps.lg = "MockLogger" THEN None ELSE @]

\* raise self._error(token, error_msg)
RaiseError(ps, token, error_msg) ==
    LET r == _error(ps, token, error_msg)
    IN IF Failed(ps) \/ Failed(r) THEN r ELSE [r EXCEPT !.exc = "ParseError", !.node = None]

\* parser.py:389-392
_consume(toks, ps, type, error_msg) ==
    IF Failed(ps) THEN ps
    ELSE IF _check(toks, ps, type) THEN _advance(toks, ps)
    ELSE RaiseError(ps, toks[ps.cur], error_msg)

\* parser.py:371-375: whether _match_one_of(*types) matches; the state after
\* a match is _advance's
_match_one_of(toks, ps, types) == ~Failed(ps) /\ toks[ps.cur].type \in types

\* parser.py:398-407: the loop, with prev the token _advance returned last
RECURSIVE SynchronizeLoop(_, _, _)
SynchronizeLoop(toks, ps, prev) ==
    IF Parser_at_end(toks, ps) THEN ps
    ELSE IF prev.type = "SEMICOLON" THEN ps
    ELSE IF toks[ps.cur].type \in
              {"CLASS", "FUN", "VAR", "FOR", "IF", "WHILE", "PRINT", "RETURN"} THEN ps
    ELSE SynchronizeLoop(toks, _advance(toks, ps), toks[ps.cur])

\* a mutant of _synchronize: the token the parser stopped at is looked at
\* before it is passed over
_synchronize_noskip(toks, ps) == SynchronizeLoop(toks, ps, EOFTok)

\* a mutant of _synchronize: a keyword at the place where the parser
\* stopped ends the synchronization before anything is passed over
_synchronize_peek(toks, ps) ==
    IF toks[ps.cur].type \in {"CLASS", "FUN", "VAR", "FOR", "IF", "WHILE", "PRINT", "RETURN"}
    THEN ps
    ELSE SynchronizeLoop(toks, _advance(toks, ps), toks[ps.cur])

\* parser.py:398-407
_synchronize(toks, ps) == SynchronizeLoop(toks, _advance(toks, ps), toks[ps.cur])

\* the methods that are called from the methods they call, by name:
\* Rule("_expression", ...) is self._expression(), and so on
RECURSIVE Rule(_, _, _)
RECURSIVE _assignment(_, _)
RECURSIVE BinaryLoops(_, _, _)
RECURSIVE _unary(_, _)
RECURSIVE Arguments(_, _, _)
RECURSIVE CallLoop(_, _)
RECURSIVE BlockLoop(_, _, _)

\* In the methods below a LET operator takes what a call returned as its
\* parameter and is the rest of the method after that call.

\* parser.py:333-355
_primary(toks, ps) ==
    LET t == toks[ps.cur]
        next == _advance(toks, ps)
        Group(expr) ==
            Yield(_consume(toks, expr, "RIGHT_PAREN", "Expected ')' after expression"),
                  Grouping(expr.node))
    IN IF Failed(ps) THEN ps
       ELSE CASE t.type = "FALSE" -> Yield(next, Literal(Bool(FALSE)))
              [] t.type = "TRUE" -> Yield(next, Literal(Bool(TRUE)))
              [] t.type = "NIL" -> Yield(next, Literal(Nil))
              [] t.type \in {"NUMBER", "STRING"} -> Yield(next, Literal(t.literal))
              [] t.type = "IDENTIFIER" -> Yield(next, Variable(ps.cur, t.lexeme))
              [] t.type = "LEFT_PAREN" -> Group(Rule("_expression", toks, next))
              [] OTHER -> RaiseError(ps, t, "Expected expression.")

\* parser.py:360-366: the loop over the arguments, args the list so far
Arguments(toks, ps, args) ==
    LET More(arg) ==
            IF Failed(arg) THEN arg
            ELSE IF _match_one_of(toks, arg, {"COMMA"})
            THEN Arguments(toks, _advance(toks, arg), Append(args, arg.node))
            ELSE Yield(arg, Append(args, arg.node))
    IN More(Rule("_expression", toks,
                 IF ~Failed(ps) /\ Len(args) > 254
                 THEN _error(ps, toks[ps.cur], "Can't have more than 255 arguments")
                 ELSE ps))

\* parser.py:357-369
_finish_call(toks, ps, callee) ==
    LET Close(args) ==
            Yield(_consume(toks, args, "RIGHT_PAREN", "Expected ')' after arguments"),
                  Call(callee, args.node))
    IN Close(IF Failed(ps) \/ _check(toks, ps, "RIGHT_PAREN") THEN Yield(ps, <<>>)
             ELSE Arguments(toks, ps, <<>>))

\* parser.py:325-329: the loop of _call; only "(" continues a call
CallLoop(toks, ps) ==
    IF _match_one_of(toks, ps, {"LEFT_PAREN"})
    THEN CallLoop(toks, _finish_call(toks, _advance(toks, ps), ps.node))
    ELSE ps

\* parser.py:318-331
_call(toks, ps) == CallLoop(toks, _primary(toks, ps))

\* parser.py:303-316
_unary(toks, ps) ==
    LET Operand(right) == Yield(right, Unary(toks[ps.cur].lexeme, right.node))
    IN IF _match_one_of(toks, ps, {"BANG", "MINUS"})
       THEN Operand(_unary(toks, _advance(toks, ps)))
       ELSE IF _match_one_of(toks, ps, {"PLUS"})
       THEN RaiseError(_unary(toks, _advance(toks, ps)), toks[ps.cur],
                       "Prefix-plus is not supported")
       ELSE _call(toks, ps)

\* the binary levels of the grammar from loosest to tightest, _or, _and,
\* _equality, _comparison, _term and _factor: the operator tokens each
\* matches (parser.py:241, 253, 264, 275, 286, 297)
Levels ==
    <<{"OR"}, {"AND"}, {"BANG_EQ", "EQ_EQ"}, {"GT", "GT_EQ", "LT", "LT_EQ"},
      {"MINUS", "PLUS"}, {"SLASH", "STAR"}>>

\* the level whose method matches a token of this type, 0 if none does
LevelOf(type) ==
    IF \E l \in 1..Len(Levels) : type \in Levels[l]
    THEN CHOOSE l \in 1..Len(Levels) : type \in Levels[l]
    ELSE 0

\* parser.py:235-301.  The six methods are one loop each,
\*     expr = next(); while op := match(types): expr = Node(expr, op, next())
\* with next the method of the level below, _unary for _factor, and Node
\* Logical for _or and _and, Binary for the others.  With the operand of the
\* tightest level in ps.node, BinaryLoops runs the loops of the levels l and
\* tighter: an operator of such a level takes as its right operand what the
\* levels tighter than its own parse, and the loop of its level goes on.
BinaryLoops(toks, ps, l) ==
    LET m == IF Failed(ps) THEN 0 ELSE LevelOf(toks[ps.cur].type)
        op == toks[ps.cur].lexeme
        Combine(right) ==
            BinaryLoops(toks,
                        Yield(right, IF m <= 2 THEN Logical(ps.node, op, right.node)
                                     ELSE Binary(ps.node, op, right.node)),
                        l)
    IN IF m < l THEN ps
       ELSE Combine(BinaryLoops(toks, _unary(toks, _advance(toks, ps)), m + 1))

\* parser.py:235-245, and through it 247-301
_or(toks, ps) == BinaryLoops(toks, _unary(toks, ps), 1)

\* parser.py:218-233: only a Variable on the left makes an Assign; for any
\* other target the error is reported, not raised, and the left-hand side is
\* the result (the message ends with the repr of the target)
_assignment(toks, ps) ==
    LET Store(expr, value) ==
            IF expr.node.k = "Variable"
            THEN Yield(value, Assign(expr.node.id, expr.node.name, value.node))
            ELSE Yield(_error(value, toks[expr.cur],
                              "Invalid assignment target " \o Repr(expr.node)),
                       expr.node)
        Target(expr) ==
            IF _match_one_of(toks, expr, {"EQ"})
            THEN Store(expr, _assignment(toks, _advance(toks, expr)))
            ELSE expr
    IN Target(_or(toks, ps))

\* parser.py:212-216
_expression(toks, ps) == _assignment(toks, ps)

\* parser.py:58-66, after "var"
_var_decl(toks, ps) ==
    LET End(init) ==
            Yield(_consume(toks, init, "SEMICOLON",
                           "Expected ';' after variable declaration"),
                  VarStmt(toks[ps.cur].lexeme, init.node))
        Initializer(name) ==
            End(IF _match_one_of(toks, name, {"EQ"})
                THEN Rule("_expression", toks, _advance(toks, name))
                ELSE Yield(name, None))
    IN Initializer(_consume(toks, ps, "IDENTIFIER", "Expected variable name"))

\* parser.py:164-170
_expression_statement(toks, ps) ==
    LET End(expr) ==
            Yield(_consume(toks, expr, "SEMICOLON", "Expected ';' after value"),
                  ExprStmt(expr.node))
    IN End(Rule("_expression", toks, ps))

\* parser.py:172-178, after "print"
_print_statement(toks, ps) ==
    LET End(value) ==
            Yield(_consume(toks, value, "SEMICOLON", "Expected ';' after value"),
                  PrintStmt(value.node))
    IN End(Rule("_expression", toks, ps))

\* parser.py:180-186, after "return"
_return_statement(toks, ps) ==
    LET End(value) ==
            Yield(_consume(toks, value, "SEMICOLON", "Expected ';' after return value"),
                  ReturnStmt(value.node))
    IN End(IF Failed(ps) \/ _check(toks, ps, "SEMICOLON") THEN Yield(ps, None)
           ELSE Rule("_expression", toks, ps))

\* parser.py:188-197, after "while"
_while_statement(toks, ps) ==
    LET Loop(cond, body) == Yield(body, WhileStmt(cond.node, body.node))
        Body(cond) ==
            Loop(cond,
                 Rule("_statement", toks,
                      _consume(toks, cond, "RIGHT_PAREN",
                               "Expected ')' after loop condition")))
    IN Body(Rule("_expression", toks,
                 _consume(toks, ps, "LEFT_PAREN", "Expected '(' after 'while'")))

\* parser.py:151-162, after "if"
_if_statement(toks, ps) ==
    LET If(cond, then_branch, else_branch) ==
            Yield(else_branch, IfStmt(cond.node, then_branch.node, else_branch.node))
        Else(cond, then_branch) ==
            If(cond, then_branch,
               IF _match_one_of(toks, then_branch, {"ELSE"})
               THEN Rule("_statement", toks, _advance(toks, then_branch))
               ELSE Yield(then_branch, None))
        Then(cond) ==
            Else(cond,
                 Rule("_statement", toks,
                      _consume(toks, cond, "RIGHT_PAREN",
                               "Expected ')' after if condition")))
    IN Then(Rule("_expression", toks,
                 _consume(toks, ps, "LEFT_PAREN", "Expected '(' after 'if'")))

\* a mutant of ForLoop: the increment runs before the body
ForLoop_incr_first(init, cond, incr, body) ==
    LET Wrap(loop) == IF init # None THEN Block(<<init, loop>>) ELSE loop
    IN Wrap(WhileStmt(cond, IF incr # None THEN Block(<<ExprStmt(incr), body>>) ELSE body))

\* parser.py:141-149: the loop a for statement stands for
ForLoop(init, cond, incr, body) ==
    LET Wrap(loop) == IF init # None THEN Block(<<init, loop>>) ELSE loop
    IN Wrap(WhileStmt(cond, IF incr # None THEN Block(<<body, ExprStmt(incr)>>) ELSE body))

\* parser.py:116-149, after "for": there is no node for the loop, it is
\* built from a while loop and blocks
_for_statement(toks, ps) ==
    LET Desugar(init, cond, incr, body) ==
            Yield(body, ForLoop(init.node, cond.node, incr.node, body.node))
        Body(init, cond, incr) ==
            Desugar(init, cond, incr,
                    Rule("_statement", toks,
                         _consume(toks, incr, "RIGHT_PAREN",
                                  "Expected ')' after 'for' clause")))
        Increment(init, cond, semi) ==
            Body(init, cond,
                 IF Failed(semi) \/ _check(toks, semi, "RIGHT_PAREN") THEN Yield(semi, None)
                 ELSE Rule("_expression", toks, semi))
        Condition(init) ==
            LET SemiColon(cond) ==
                    Increment(init, cond,
                              _consume(toks, cond, "SEMICOLON",
                                       "Expected ';' after loop condition"))
            IN SemiColon(IF Failed(init) \/ _check(toks, init, "SEMICOLON")
                         THEN Yield(init, Literal(Bool(TRUE)))
                         ELSE Rule("_expression", toks, init))
        Initializer(open) ==
            Condition(IF _match_one_of(toks, open, {"SEMICOLON"})
                      THEN Yield(_advance(toks, open), None)
                      ELSE IF _match_one_of(toks, open, {"VAR"})
                      THEN Rule("_var_decl", toks, _advance(toks, open))
                      ELSE Rule("_expression_statement", toks, open))
    IN Initializer(_consume(toks, ps, "LEFT_PAREN", "Expected '(' after 'for'"))

\* parser.py:203-207: the loop of _block, stmts the list so far
BlockLoop(toks, ps, stmts) ==
    LET More(decl) ==
            BlockLoop(toks, decl,
                      IF decl.node # None THEN Append(stmts, decl.node) ELSE stmts)
    IN IF Failed(ps) THEN ps
       ELSE IF ~_check(toks, ps, "RIGHT_BRACE") /\ ~Parser_at_end(toks, ps)
       THEN More(Rule("_declaration", toks, ps))
       ELSE Yield(ps, stmts)

\* parser.py:199-210, after "{": the list of the statements
_block(toks, ps) ==
    LET Close(body) ==
            Yield(_consume(toks, body, "RIGHT_BRACE", "Expected '}' after block"),
                  body.node)
    IN Close(BlockLoop(toks, ps, <<>>))

\* parser.py:75-81: the loop over the parameters, params the list so far
RECURSIVE Parameters(_, _, _)
Parameters(toks, ps, params) ==
    LET r == IF ~Failed(ps) /\ Len(params) > 254
             THEN _error(ps, toks[ps.cur], "Can't have more than 255 parameters") ELSE ps
        More(name) ==
            IF Failed(name) THEN name
            ELSE IF _match_one_of(toks, name, {"COMMA"})
            THEN Parameters(toks, _advance(toks, name), Append(params, toks[ps.cur].lexeme))
            ELSE Yield(name, Append(params, toks[ps.cur].lexeme))
    IN More(_consume(toks, r, "IDENTIFIER", "Expected parameter name"))

\* parser.py:68-89, after "fun"
_fun_decl(toks, ps, kind) ==
    LET Function(params, body) ==
            Yield(body, FunctionStmt(toks[ps.cur].lexeme, params.node, body.node))
        Body(params) ==
            Function(params,
                     _block(toks,
                            _consume(toks,
                                     _consume(toks, params, "RIGHT_PAREN",
                                              "Expected ')' after parameters"),
                                     "LEFT_BRACE",
                                     "Expected '{' before " \o kind \o " body")))
        ParameterList(open) ==
            Body(IF Failed(open) \/ _check(toks, open, "RIGHT_PAREN") THEN Yield(open, <<>>)
                 ELSE Parameters(toks, open, <<>>))
    IN ParameterList(_consume(toks,
                              _consume(toks, ps, "IDENTIFIER", "Expected " \o kind \o " name"),
                              "LEFT_PAREN", "Expected '(' after " \o kind \o " name"))

\* parser.py:91-114
_statement(toks, ps) ==
    LET next == _advance(toks, ps)
        type == toks[ps.cur].type
        Braces(body) == Yield(body, Block(body.node))
    IN IF Failed(ps) THEN ps
       ELSE CASE type = "FOR" -> _for_statement(toks, next)
              [] type = "IF" -> _if_statement(toks, next)
              [] type = "PRINT" -> _print_statement(toks, next)
              [] type = "RETURN" -> _return_statement(toks, next)
              [] type = "WHILE" -> _while_statement(toks, next)
              [] type = "LEFT_BRACE" -> Braces(_block(toks, next))
              [] OTHER -> _expression_statement(toks, ps)

\* parser.py:41-56: a ParseError is caught here, the parser synchronizes and
\* the declaration gives None; any other exception goes on
_declaration(toks, ps) ==
    LET Except(r) ==
            IF r.exc = "ParseError"
            THEN Yield(_synchronize(toks, [r EXCEPT !.exc = "none"]), None)
            ELSE r
    IN IF Failed(ps) THEN ps
       ELSE Except(IF _match_one_of(toks, ps, {"VAR"})
                   THEN _var_decl(toks, _advance(toks, ps))
                   ELSE IF _match_one_of(toks, ps, {"FUN"})
                   THEN _fun_decl(toks, _advance(toks, ps), "function")
                   ELSE _statement(toks, ps))

Rule(name, toks, ps) ==
    CASE name = "_expression" -> _expression(toks, ps)
      [] name = "_statement" -> _statement(toks, ps)
      [] name = "_declaration" -> _declaration(toks, ps)
      [] name = "_var_decl" -> _var_decl(toks, ps)
      [] name = "_expression_statement" -> _expression_statement(toks, ps)

(***************************************************************************)
(* parse() as a state machine: one step for each iteration of its loop     *)
(***************************************************************************)

\* the parser's own state as a parser-state record
ParserState == [cur |-> curr, errs |-> errors, exc |-> "none", lg |-> logger, node |-> None]

\* parser.py:31-34: one iteration of the loop of parse
ParseDeclaration ==
    /\ parse_pc = "parsing"
    /\ ~Parser_at_end(p_tokens, ParserState)
    /\ LET Loop(decl) ==
               /\ curr' = decl.cur
               /\ errors' = decl.errs
               /\ had_error' = (logger = "LoxLogger" /\ decl.errs # <<>>)
               /\ statements' = IF ~Failed(decl) /\ decl.node # None
                                THEN Append(statements, decl.node) ELSE statements
               /\ parse_pc' = IF Failed(decl) THEN "crashed" ELSE "parsing"
               /\ crash' = IF Failed(decl) THEN decl.exc ELSE crash
       IN Loop(Rule("_declaration", p_tokens, ParserState))
    /\ UNCHANGED <<p_tokens, logger>>
    /\ UNCHANGED <<svars, driver, prog, pc, locals, envs, env, instances, kont, ctrl, out,
                   rt_reports, had_runtime_error>>

\* parser.py:31, 36: at EOF the loop ends and the statements are returned
ParseReturn ==
    /\ parse_pc = "parsing"
    /\ Parser_at_end(p_tokens, ParserState)
    /\ parse_pc' = "done"
    /\ UNCHANGED <<p_tokens, curr, statements>>
    /\ UNCHANGED <<svars, ivars>>

\* longest generated token stream, not counting EOF
MaxTokens == 3

\* the type of a punctuation or keyword token, by its lexeme (token.py:12-52)
SymbolType(lexeme) ==
    CASE lexeme = "(" -> "LEFT_PAREN" [] lexeme = ")" -> "RIGHT_PAREN"
      [] lexeme = "{" -> "LEFT_BRACE" [] lexeme = "}" -> "RIGHT_BRACE"
      [] lexeme = "," -> "COMMA" [] lexeme = "." -> "DOT"
      [] lexeme = "-" -> "MINUS" [] lexeme = "+" -> "PLUS"
      [] lexeme = ";" -> "SEMICOLON" [] lexeme = "/" -> "SLASH" [] lexeme = "*" -> "STAR"
      [] lexeme = "!" -> "BANG" [] lexeme = "!=" -> "BANG_EQ"
      [] lexeme = "=" -> "EQ" [] lexeme = "==" -> "EQ_EQ"
      [] lexeme = ">" -> "GT" [] lexeme = ">=" -> "GT_EQ"
      [] lexeme = "<" -> "LT" [] lexeme = "<=" -> "LT_EQ"
      [] lexeme = "and" -> "AND" [] lexeme = "class" -> "CLASS" [] lexeme = "else" -> "ELSE"
      [] lexeme = "false" -> "FALSE" [] lexeme = "fun" -> "FUN" [] lexeme = "for" -> "FOR"
      [] lexeme = "if" -> "IF" [] lexeme = "nil" -> "NIL" [] lexeme = "or" -> "OR"
      [] lexeme = "print" -> "PRINT" [] lexeme = "return" -> "RETURN"
      [] lexeme = "super" -> "SUPER" [] lexeme = "this" -> "THIS"
      [] lexeme = "true" -> "TRUE" [] lexeme = "var" -> "VAR" [] lexeme = "while" -> "WHILE"
Sym(lexeme) == Tok(SymbolType(lexeme), lexeme)

\* the tokens of a stream are distinct objects with increasing offsets: the
\* place of a token in the stream stands for its offset
Stream(toks) == [i \in 1..Len(toks) |-> [toks[i] EXCEPT !.offset = i]]

\* egg.scramble(3).with(cheddar);                    (tests/test_classes.py:52)
ChainTokens ==
    Stream(<<Ident("egg"), Sym("."), Ident("scramble"), Sym("("), NumberTok(3), Sym(")"),
      Sym("."), Ident("with"), Sym("("), Ident("cheddar"), Sym(")"), Sym(";"), EOFTok>>)

\* a.b.c = v;
SetTokens ==
    Stream(<<Ident("a"), Sym("."), Ident("b"), Sym("."), Ident("c"), Sym("="), Ident("v"),
      Sym(";"), EOFTok>>)

\* var method = super.cook; method();                (tests/test_classes.py:55)
SuperTokens ==
    Stream(<<Sym("var"), Ident("method"), Sym("="), Sym("super"), Sym("."), Ident("cook"),
      Sym(";"), Ident("method"), Sym("("), Sym(")"), Sym(";"), EOFTok>>)

\* a = f(1) + 2; print a;
PlainTokens ==
    Stream(<<Ident("a"), Sym("="), Ident("f"), Sym("("), NumberTok(1), Sym(")"), Sym("+"),
      NumberTok(2), Sym(";"), Sym("print"), Ident("a"), Sym(";"), EOFTok>>)

\* a var b = 1; print b;       (no ';' after a: the error is reported at var)
SyncTokens ==
    Stream(<<Ident("a"), Sym("var"), Ident("b"), Sym("="), NumberTok(1), Sym(";"),
             Sym("print"), Ident("b"), Sym(";"), EOFTok>>)

\* x = 1; a b; c;
SkipTokens ==
    Stream(<<Ident("x"), Sym("="), NumberTok(1), Sym(";"), Ident("a"), Ident("b"), Sym(";"),
             Ident("c"), Sym(";"), EOFTok>>)

\* { a b; c; } d;
BlockSyncTokens ==
    Stream(<<Sym("{"), Ident("a"), Ident("b"), Sym(";"), Ident("c"), Sym(";"), Sym("}"),
             Ident("d"), Sym(";"), EOFTok>>)

\* 1 = 2; a;
TargetTokens ==
    Stream(<<NumberTok(1), Sym("="), NumberTok(2), Sym(";"), Ident("a"), Sym(";"), EOFTok>>)

\* class A { } a;                           (the parser has no rule for class)
ClassTokens ==
    Stream(<<Sym("class"), Ident("A"), Sym("{"), Sym("}"), Ident("a"), Sym(";"), EOFTok>>)

\* for (INIT COND; INCR) print i; print i;
\*   INIT is  var i = 0;  or  i = 0;  or  ;    COND is  i  or nothing,
\*   INCR is  i = 1  or nothing
ForInits == {"var", "expr", "none"}
ForTokens(init, cond, incr) ==
    Stream(<<Sym("for"), Sym("(")>>
           \o (IF init = "var" THEN <<Sym("var")>> ELSE <<>>)
           \o (IF init = "none" THEN <<>> ELSE <<Ident("i"), Sym("="), NumberTok(0)>>)
           \o <<Sym(";")>>
           \o (IF cond THEN <<Ident("i")>> ELSE <<>>)
           \o <<Sym(";")>>
           \o (IF incr THEN <<Ident("i"), Sym("="), NumberTok(1)>> ELSE <<>>)
           \o <<Sym(")"), Sym("print"), Ident("i"), Sym(";"),
                Sym("print"), Ident("i"), Sym(";"), EOFTok>>)
ForStreams == {ForTokens(init, cond, incr) : init \in ForInits, cond \in BOOLEAN, incr \in BOOLEAN}

\* the tokens the generated streams are made of
TokenAlphabet ==
    {Ident("a"), NumberTok(1), Sym("="), Sym("."), Sym("("), Sym(")"), Sym(";"),
     Sym("{"), Sym("}"), Sym("var")}

\* the streams parsed: the named ones, and every stream of up to MaxTokens
\* tokens of the alphabet followed by EOF
TokenStreams ==
    {ChainTokens, SetTokens, SuperTokens, PlainTokens,
     SyncTokens, SkipTokens, BlockSyncTokens, TargetTokens, ClassTokens}
    \cup ForStreams
    \cup UNION {{Stream(s \o <<EOFTok>>) : s \in [1..n -> TokenAlphabet]} : n \in 0..MaxTokens}

\* parser.py:12-13, 21-24: parse(tokens, logger) makes a Parser, whose
\* current token is the first of the stream; nothing else is running
ParseInit ==
    /\ p_tokens \in TokenStreams
    /\ curr = 1
    /\ statements = <<>>
    /\ parse_pc = "parsing"
    /\ logger \in {"LoxLogger", "MockLogger"}
    /\ errors = <<>> /\ had_error = FALSE /\ crash = "none"
    /\ source = <<>> /\ start = 0 /\ pos = 0 /\ tokens = <<>>
    /\ scan_errors = <<>> /\ scan_pc = "idle"
    /\ driver = "none" /\ prog = [name |-> "none"] /\ pc = "idle"
    /\ locals = <<>>
    /\ envs = <<>> /\ env = 0 /\ instances = <<>>
    /\ kont = <<>> /\ ctrl = [m |-> "idle"]
    /\ out = <<>> /\ rt_reports = <<>> /\ had_runtime_error = FALSE

ParseNext == ParseDeclaration \/ ParseReturn

SpecParse == ParseInit /\ [][ParseNext]_vars
----------------------------------------------------------------------------
(* Claims about the scanner *)

IsEOF(tok) == tok.type = "EOF"

ScanStreamShape ==
    /\ pos <= Len(source)
    /\ Len(tokens) <= pos + 1
    /\ scan_pc = "scanning" => \A i \in 1..Len(tokens) : ~IsEOF(tokens[i])
    /\ scan_pc = "done" =>
        /\ Len(tokens) >= 1
        /\ IsEOF(tokens[Len(tokens)])
        /\ tokens[Len(tokens)].lexeme = <<>>
        /\ \A i \in 1..(Len(tokens) - 1) : ~IsEOF(tokens[i])

\* C9: for every source the token stream is finite (every pull advances the
\* position or ends the stream, and the position never passes the end of the
\* source, so at most Len(source) + 1 tokens are produced), and its last
\* token, and only its last, is EOF with an empty lexeme; also after an
\* unterminated string, an unexpected character or a trailing line comment.
C9_EndsInExactlyOneEOF ==
    /\ [](scan_pc # "idle" => ScanStreamShape)
    /\ [][scan_pc = "scanning" => (pos' > pos \/ scan_pc' = "done")]_vars

\* C9 witness: a finished scan that reported an unexpected character and an
\* unterminated string and yielded the EOF token only
C9_Witness ==
    /\ scan_pc = "done"
    /\ \E i \in 1..Len(scan_errors) : scan_errors[i].message = "Unterminated string"
    /\ \E i \in 1..Len(scan_errors) : scan_errors[i].message = "Unexpected character"
    /\ Len(tokens) = 1

\* C10: for every token produced, source[offset : offset + length] = lexeme.
C10_LexemeIsSliceAtOffset ==
    scan_pc # "idle" =>
        \A i \in 1..Len(tokens) :
            Slice(source, tokens[i].offset, tokens[i].offset + tokens[i].length)
                = tokens[i].lexeme

\* the characters of Alphabet that start a token, white space or a comment
TokenStart == {"(", "!", "=", "/", "\n", "\"", "1", ".", "o", "r"}

\* the scan is at a character that starts no token
AtUnexpected == scan_pc = "scanning" /\ pos < Len(source) /\ source[pos + 1] \notin TokenStart

\* the scan is at the opening quote of a string that is never closed
AtUnterminated ==
    /\ scan_pc = "scanning" /\ pos < Len(source) /\ source[pos + 1] = "\""
    /\ \A i \in (pos + 2)..Len(source) : source[i] # "\""

\* this step sends exactly one report, with this message, and yields no token
ReportsOnce(message) ==
    /\ Len(scan_errors') = Len(scan_errors) + 1
    /\ SubSeq(scan_errors', 1, Len(scan_errors)) = scan_errors
    /\ scan_errors'[Len(scan_errors')].message = message
    /\ tokens' = tokens
    /\ scan_pc' = "scanning"

\* type and lexeme of the tokens scanned from position p of src to its end
RECURSIVE TokensFrom(_, _)
TokensFrom(src, p) ==
    IF _at_end(src, p) THEN <<[type |-> "EOF", lexeme |-> <<>>]>>
    ELSE LET After(r) ==
                 IF r.token = NoToken THEN TokensFrom(src, r.pos)
                 ELSE <<[type |-> r.token.type, lexeme |-> r.token.lexeme]>>
                          \o TokensFrom(src, r.pos)
         IN After(_scan_token(src, p))

\* C21: each unterminated string and each character that starts no token is
\* reported to the sink exactly once, with 'Unterminated string' or
\* 'Unexpected character', and yields no token; no other step reports
\* anything; the scan goes on after the report (past the character, or at
\* the end of the source for the string), and the tokens that follow an
\* unexpected character are the tokens of the rest of the source.
C21_ScanErrorsReportedOnceAndSkipped ==
    /\ [][(AtUnexpected => ReportsOnce("Unexpected character") /\ pos' = pos + 1)
          /\ (AtUnterminated => ReportsOnce("Unterminated string") /\ pos' = Len(source))
          /\ (~AtUnexpected /\ ~AtUnterminated => scan_errors' = scan_errors)]_vars
    /\ [](scan_pc = "done" /\ Len(source) >= 1 /\ source[1] \notin TokenStart =>
            /\ [i \in 1..Len(tokens) |-> [type |-> tokens[i].type, lexeme |-> tokens[i].lexeme]]
                   = TokensFrom(Tail(source), 0)
            /\ Len(scan_errors) >= 1
            /\ scan_errors[1].message = "Unexpected character")

\* C21 witness: a finished scan of "?(" followed by an unterminated string:
\* two reports, one of each kind, and the token after the unexpected
\* character was produced
C21_Witness ==
    /\ scan_pc = "done"
    /\ Len(source) = 4 /\ source[1] = "?" /\ source[2] = "(" /\ source[3] = "\""
    /\ Len(scan_errors) = 2
    /\ scan_errors[1].message = "Unexpected character"
    /\ scan_errors[2].message = "Unterminated string"
    /\ Len(tokens) = 2 /\ tokens[1].type = "LEFT_PAREN"

(* Claims about the parser *)

ParseEnded == parse_pc \in {"done", "crashed"}

\* C15: the parser accepts, without reporting a parse error, chains of
\* property accesses and calls (egg.scramble(3).with(cheddar);), assignment
\* to a property (a.b.c = v;, the Get on the left becoming a Set), and
\* super.method expressions (var method = super.cook; method();).
C15_PropertyChainsSetAndSuperParse ==
    (p_tokens \in {ChainTokens, SetTokens, SuperTokens} /\ parse_pc # "parsing") =>
        /\ parse_pc = "done"
        /\ errors = <<>>
        /\ p_tokens = ChainTokens =>
              statements = <<ExprStmt(
                  Call(Get(Call(Get(Variable(1, "egg"), "scramble"), <<Literal(Num(3))>>),
                           "with"),
                       <<Variable(10, "cheddar")>>))>>
        /\ p_tokens = SetTokens =>
              statements = <<ExprStmt(
                  Set(Get(Variable(1, "a"), "b"), "c", Variable(7, "v")))>>
        /\ p_tokens = SuperTokens =>
              statements = <<VarStmt("method", Super(4, "cook")),
                             ExprStmt(Call(Variable(8, "method"), <<>>))>>

\* the keywords a statement starts with (parser.py:404)
SyncKeywords == {"CLASS", "FUN", "VAR", "FOR", "IF", "WHILE", "PRINT", "RETURN"}

\* place j of the stream is just past a ';', just before a keyword, or EOF
SyncPoint(toks, j) ==
    \/ toks[j].type = "EOF"
    \/ toks[j].type \in SyncKeywords
    \/ j > 1 /\ toks[j - 1].type = "SEMICOLON"

\* the nearest such place from place k on
NearestSyncPoint(toks, k) ==
    CHOOSE j \in k..Len(toks) :
        SyncPoint(toks, j) /\ \A i \in k..(j - 1) : ~SyncPoint(toks, i)

\* this iteration of parse's loop gave up its statement: it reported an
\* error and appended nothing, and parse goes on
Abandons ==
    /\ parse_pc = "parsing" /\ parse_pc' = "parsing"
    /\ errors' # errors
    /\ statements' = statements

\* the error reported last
LastError == errors'[Len(errors')]

\* C23 as stated: after a parse error the parser resumes at the nearest place,
\* at or after the token where the error was reported, that is just past a
\* ';' or just before a statement keyword or EOF; the statements before the
\* error and those from the resume point on are in the list, the erroneous
\* statement is not.
C23_ResumesAtNearestPointFromErrorToken ==
    /\ [][Abandons => curr' = NearestSyncPoint(p_tokens, LastError.offset)]_vars
    /\ [][parse_pc = "parsing" /\ parse_pc' = "parsing" /\ errors' # errors
             /\ p_tokens[curr].type # "LEFT_BRACE"
          => statements' = statements]_vars
    /\ [](p_tokens = SyncTokens /\ logger = "LoxLogger" /\ parse_pc = "done" =>
            statements = <<VarStmt("b", Literal(Num(1))), PrintStmt(Variable(8, "b"))>>)

\* C23 as the code has it: after a parse error that is raised (every one but
\* 'Invalid assignment target', which is reported while the statement is
\* kept) the parser passes over the token the error was reported at, unless
\* it is EOF, and resumes at the nearest place after it that is just past a
\* ';' or just before a statement keyword or EOF; the list only grows, the
\* statements before the error and those from the resume point on are in it
\* and the abandoned statement is not.
C23_ResumesAtNearestPointAfterErrorToken ==
    /\ [][Abandons =>
            /\ LastError.message # "Prefix-plus is not supported"
            /\ curr' = IF p_tokens[LastError.offset].type = "EOF" THEN LastError.offset
                       ELSE NearestSyncPoint(p_tokens, LastError.offset + 1)]_vars
    /\ [][parse_pc = "parsing" =>
            /\ Len(statements') \in {Len(statements), Len(statements) + 1}
            /\ SubSeq(statements', 1, Len(statements)) = statements]_vars
    /\ [][parse_pc = "parsing" /\ parse_pc' = "parsing" /\ errors' # errors
             /\ p_tokens[curr].type # "LEFT_BRACE" /\ statements' # statements
          => LastError.message = "Invalid assignment target " \o Repr(Literal(Num(1)))]_vars
    /\ [](logger = "LoxLogger" /\ parse_pc = "done" =>
            /\ p_tokens = SyncTokens =>
                /\ statements = <<PrintStmt(Variable(8, "b"))>>
                /\ Len(errors) = 1 /\ errors[1].offset = 2
            /\ p_tokens = SkipTokens =>
                /\ statements = <<ExprStmt(Assign(1, "x", Literal(Num(1)))),
                                  ExprStmt(Variable(8, "c"))>>
                /\ Len(errors) = 1 /\ errors[1].offset = 6
            /\ p_tokens = BlockSyncTokens =>
                /\ statements = <<Block(<<ExprStmt(Variable(5, "c"))>>),
                                  ExprStmt(Variable(8, "d"))>>
                /\ Len(errors) = 1 /\ errors[1].offset = 3
            /\ p_tokens = TargetTokens =>
                /\ statements = <<ExprStmt(Literal(Num(1))), ExprStmt(Variable(5, "a"))>>
                /\ Len(errors) = 1 /\ errors[1].offset = 2)

\* C23 witness: the parse of "a var b = 1; print b;" has ended with one error
\* and only the print statement: the tokens from var to ';' were passed over
C23_Witness ==
    /\ p_tokens = SyncTokens /\ logger = "LoxLogger" /\ parse_pc = "done"
    /\ Len(errors) = 1
    /\ Len(statements) = 1

\* a call of _declaration with the parser at place c of the stream, not at
\* EOF, ends with the parser further on, or with an exception of the sink
DeclarationConsumes(c) ==
    LET After(r) == Failed(r) \/ r.cur > c
    IN After(Rule("_declaration", p_tokens,
                  [cur |-> c, errs |-> <<>>, exc |-> "none", lg |-> logger, node |-> None]))

\* C24: for every token stream that ends in EOF parse() terminates: every
\* iteration of the top-level loop consumes at least one token, and so does
\* every call of _declaration the loop of a block can make (one at any place
\* of the stream but EOF), also when it reports a parse error; the parser
\* never passes EOF, so that the loop runs at most once for each token
\* before parse() returns; and at EOF parse() returns.
C24_ParseTerminates ==
    /\ [][parse_pc = "parsing" =>
            \/ parse_pc' = "parsing" /\ curr' > curr
            \/ parse_pc' = "crashed" /\ logger = "MockLogger"
            \/ parse_pc' = "done" /\ p_tokens[curr].type = "EOF"]_vars
    /\ [][ParseEnded => UNCHANGED vars]_vars
    /\ [](parse_pc # "idle" =>
            /\ curr \in 1..Len(p_tokens)
            /\ \A c \in 1..(Len(p_tokens) - 1) : DeclarationConsumes(c))

\* C24 witness: parse() has returned for a stream of two unclosed blocks: an
\* error at EOF for each, and no statement
C24_Witness ==
    /\ parse_pc = "done"
    /\ Len(p_tokens) = 3
    /\ p_tokens[1].type = "LEFT_BRACE" /\ p_tokens[2].type = "LEFT_BRACE"
    /\ Len(errors) = 2
    /\ errors[1].offset = 3 /\ errors[2].offset = 3
    /\ statements = <<>>

----------------------------------------------------------------------------
\* the for statement of a for stream has been parsed: it is the first
\* statement, and print i; after the loop is the second
ForParsed(init, cond, incr) ==
    /\ p_tokens = ForTokens(init, cond, incr)
    /\ parse_pc = "done"

IsLoopVar(e) == e.k = "Variable" /\ e.name = "i"
IsPrintI(s) == s.k = "PrintStmt" /\ IsLoopVar(s.expr)
IsInit(s, init) ==
    IF init = "var" THEN s.k = "VarStmt" /\ s.name = "i" /\ s.init = Literal(Num(0))
    ELSE s.k = "ExprStmt" /\ s.expr.k = "Assign" /\ s.expr.name = "i"
                          /\ s.expr.value = Literal(Num(0))
IsIncrement(s) ==
    s.k = "ExprStmt" /\ s.expr.k = "Assign" /\ s.expr.name = "i" /\ s.expr.value = Literal(Num(1))
IsCondition(e, cond) == IF cond THEN IsLoopVar(e) ELSE e = Literal(Bool(TRUE))

\* the while loop of the for statement s
WhileOf(s, init) == IF init = "none" THEN s ELSE s.stmts[2]

\* the kinds of the statement s and of the statements it contains
RECURSIVE StmtKinds(_)
StmtKinds(s) ==
    IF s = None THEN {}
    ELSE {s.k} \cup
         CASE s.k = "Block" -> UNION {StmtKinds(s.stmts[i]) : i \in 1..Len(s.stmts)}
           [] s.k = "WhileStmt" -> StmtKinds(s.body)
           [] s.k = "IfStmt" -> StmtKinds(s.then_branch) \cup StmtKinds(s.else_branch)
           [] OTHER -> {}

\* the statement classes of ast.py
StmtClasses ==
    {"Block", "Class", "ExprStmt", "FunctionStmt", "IfStmt", "PrintStmt", "ReturnStmt",
     "VarStmt", "WhileStmt"}

\* the side table the resolver makes for the statements parsed
ParsedLocals == ResolveProgram("LoxLogger", statements).locals

\* C27 as stated: every for statement is a Block of the initializer and a
\* While whose body is a Block of the original body and the increment.
C27_EveryForIsBlockOfWhileOfBlock ==
    \A init \in ForInits, cond, incr \in BOOLEAN :
        ForParsed(init, cond, incr) =>
            /\ statements[1].k = "Block"
            /\ statements[1].stmts[Len(statements[1].stmts)].k = "WhileStmt"
            /\ statements[1].stmts[Len(statements[1].stmts)].body.k = "Block"

\* C27: a for statement is parsed into a While whose condition is the loop
\* condition, or the literal true when there is none, and whose body is a
\* Block of the original body and the increment, or the original body itself
\* when there is no increment; with an initializer the result is a Block of
\* the initializer and that While, without one it is the While itself.  No
\* node for a for statement exists.  A variable declared in the initializer
\* is resolved as a local of that Block inside the loop, and a reference
\* after the loop is not bound to it.
C27_ForIsWhileWrappedWhereNeeded ==
    /\ \A init \in ForInits, cond, incr \in BOOLEAN :
        ForParsed(init, cond, incr) =>
            /\ errors = <<>> /\ Len(statements) = 2 /\ IsPrintI(statements[2])
            /\ IF init = "none" THEN statements[1].k = "WhileStmt"
               ELSE /\ statements[1].k = "Block" /\ Len(statements[1].stmts) = 2
                    /\ IsInit(statements[1].stmts[1], init)
                    /\ statements[1].stmts[2].k = "WhileStmt"
            /\ IsCondition(WhileOf(statements[1], init).cond, cond)
            /\ IF incr
               THEN /\ WhileOf(statements[1], init).body.k = "Block"
                    /\ Len(WhileOf(statements[1], init).body.stmts) = 2
                    /\ IsPrintI(WhileOf(statements[1], init).body.stmts[1])
                    /\ IsIncrement(WhileOf(statements[1], init).body.stmts[2])
               ELSE IsPrintI(WhileOf(statements[1], init).body)
            /\ IF init = "var"
               THEN /\ cond => ParsedLocals[WhileOf(statements[1], init).cond.id] = 0
                    /\ IF incr
                       THEN /\ ParsedLocals[WhileOf(statements[1], init).body.stmts[1].expr.id] = 1
                            /\ ParsedLocals[WhileOf(statements[1], init).body.stmts[2].expr.id] = 1
                       ELSE ParsedLocals[WhileOf(statements[1], init).body.expr.id] = 0
                    /\ ~Has(ParsedLocals, statements[2].expr.id)
               ELSE ParsedLocals = EmptyMap
    /\ \A i \in 1..Len(statements) : StmtKinds(statements[i]) \subseteq StmtClasses

\* C27 witness: for (var i = 0; i; i = 1) print i; print i; has been parsed
\* into { var i = 0; while (i) { print i; i = 1; } } and print i;
C27_Witness ==
    /\ ForParsed("var", TRUE, TRUE)
    /\ Len(statements) = 2
    /\ statements[1].k = "Block"
    /\ statements[1].stmts[2].body.k = "Block"

----------------------------------------------------------------------------
(* Claims about the resolver and the interpreter *)

Terminated == pc \in {"done", "crashed"}

IsPrefix(s, t) == Len(s) <= Len(t) /\ s = SubSeq(t, 1, Len(s))

\* the interpreter is about to look a name up, or to assign to one, through
\* the side table: the expression and the distance recorded for it
AtResolvedAccess ==
    /\ Running
    /\ \/ ctrl.m = "eval" /\ ctrl.e.k \in {"Variable", "This", "Super"}
                          /\ Has(locals, ctrl.e.id)
       \/ ctrl.m = "val" /\ Top.f = "assign" /\ Has(locals, Top.e.id)
AccessedExpr == IF ctrl.m = "eval" THEN ctrl.e ELSE Top.e

\* the frame d parent links up from frame e, or 0 when the chain ends before
RECURSIVE Walk(_, _)
Walk(e, d) == IF d = 0 \/ e = 0 THEN e ELSE Walk(envs[e].enclosing, d - 1)

RuntimeErrorRaised ==
    \/ rt_reports # <<>>
    \/ Raising /\ ctrl.exc.k = "LoxRuntimeError"

\* C2: once a runtime error is raised during interpret(), wherever it is
\* raised, no further statement is executed and nothing more is printed, and
\* the sink is told of the error exactly once.
C2_RuntimeErrorHaltsAndIsReportedOnce ==
    /\ [](Len(rt_reports) <= 1)
    /\ [][RuntimeErrorRaised => (out' = out /\ ctrl'.m # "exec")]_vars
    /\ [][(Raising /\ ctrl.exc.k = "LoxRuntimeError" /\ Top.f = "interpret")
            => Len(rt_reports') = 1]_vars

ReturnPropagating == Raising /\ ctrl.exc.k = "Return"

\* what a step does while a Return signal is on its way up: nothing is
\* printed or reported, no statement is executed, a frame that is no function
\* call is left with the signal unchanged, and at the call the signal ends;
\* result is the value the call then has for its caller
ReturnStep(result) ==
    ReturnPropagating =>
        /\ out' = out
        /\ rt_reports' = rt_reports
        /\ kont' = Pop
        /\ Top.f \notin {"call", "interpret"} => ctrl' = ctrl
        /\ Top.f = "call" => ctrl' = Val(result)

\* C3 as stated: a Return signal is caught only by the innermost enclosing
\* function call and ends it with the carried value (nil without a value);
\* the rest of the body is not executed, the signal is never reported to the
\* sink, and execution continues in the caller.
C3_ReturnEndsCallWithCarriedValue ==
    [][ReturnStep(ctrl.exc.value)]_vars

\* C3 amended: the same, except that a call of an initializer has the
\* instance bound to this as its value, whatever value the signal carries.
C3_ReturnEndsCallInitReturnsThis ==
    [][ReturnStep(IF Top.fn.is_init
                  THEN envs[Top.fn.enclosing].bindings["this"]
                  ELSE ctrl.exc.value)]_vars

\* C3 witness: the program of f, g and h has run: a value returned out of a
\* block in a loop, a bare return, a return of a call's value, and the
\* statement after the calls
C3_Witness ==
    /\ prog.name = "return"
    /\ pc = "done"
    /\ out = <<"2", "nil", "3", "after">>

CounterOutput(n) == [i \in 1..n |-> ToString(i)] \o <<"1", ToString(n + 1)>>

ExpectedOutput(expected) ==
    /\ IsPrefix(out, expected)
    /\ Terminated => (pc = "done" /\ out = expected /\ rt_reports = <<>>)

\* C4: a function captures the frame current at its declaration by
\* reference: the n calls of one counter print 1..n, a second counter made
\* by another call of makeCounter starts at 1 and leaves the first, whose
\* next call prints n + 1, alone; two closures declared in one frame see
\* each other's assignments, and a later call of their enclosing function
\* gives fresh ones.
C4_ClosuresShareCapturedFrame ==
    driver = "run_test" =>
        /\ prog.name = "counter" => ExpectedOutput(CounterOutput(prog.n))
        /\ prog.name = "shared" => ExpectedOutput(<<"1", "2", "0">>)

\* C4 witness: three calls of the first counter printed 1, 2, 3, the second
\* counter printed 1 and the first went on with 4
C4_Witness ==
    /\ prog.name = "counter"
    /\ pc = "done"
    /\ out = <<"1", "2", "3", "1", "4">>

\* C5: a variable reference in a function body denotes the same declaration
\* on every call: after a variable of the same name is declared later in the
\* block enclosing the function, a call still reads the binding visible at
\* the function's declaration (the scenario prints global twice), whether
\* that binding is a global or a local of an outer block.
C5_LexicalResolution ==
    (driver = "run_test" /\ prog.name = "lexical") =>
        /\ ExpectedOutput(<<"global", "global">>)
        /\ Returned("print") => ctrl.v = Str("global")

\* C5 witness: showA is about to print on its second call, after the block
\* has declared its own a
C5_Witness ==
    /\ prog.name = "lexical"
    /\ Returned("print")
    /\ out = <<"global">>
    /\ Has(envs[envs[env].enclosing].bindings, "a")
    /\ envs[envs[env].enclosing].bindings["a"] = Str("block")

SelfInitialized ==
    [token |-> "a", message |-> "Can't read local variable in its own initializer"]

C7_ScopeShadowPrints2Then1 ==
    (driver = "run" /\ prog.name = "shadow") =>
        /\ crash = "none"
        /\ errors = <<>>
        /\ rt_reports = <<>>
        /\ IsPrefix(out, <<"2", "1">>)
        /\ Terminated => out = <<"2", "1">>

\* C8: an assignment expression stores the value of its right-hand side and
\* has that same value as its own: print a = 1; prints 1 and a = b = 2
\* leaves a and b equal to 2.
C8_AssignReturnsAssignedValue ==
    /\ [][Returned("assign") => ctrl' = Val(ctrl.v)]_vars
    /\ []((driver = "run_test" /\ prog.name = "print_assign" /\ Terminated)
            => out = <<"1">>)
    /\ []((driver = "run_test" /\ prog.name = "chain" /\ Terminated)
            => out = <<"2", "2">>)

ThisOf(fn) == envs[fn.enclosing].bindings["this"]

\* a call of an initializer is ending: its body ran to its end, or a Return
\* signal has reached the call
InitCallEnding ==
    /\ Finished("call") \/ (ReturnPropagating /\ Top.f = "call")
    /\ Top.fn.is_init

\* C12: calling a class returns a newly created instance, the same object
\* that this denotes in the class's init; so when init falls off the end of
\* its body and when it executes a bare return, and a call of init through
\* the instance returns that instance, not nil.
C12_ClassCallReturnsThisOfInit ==
    /\ [](\A i \in 2..Len(kont) :
            (kont[i].f = "call" /\ kont[i - 1].f = "class_call")
                => (kont[i].fn.is_init /\ ThisOf(kont[i].fn) = kont[i - 1].instance))
    /\ [][Returned("class_call") => ctrl' = Val(Top.instance)]_vars
    /\ [][InitCallEnding => ctrl' = Val(ThisOf(Top.fn))]_vars
    /\ [][Len(instances') # Len(instances) =>
            LET new == Len(instances) + 1
            IN /\ Len(instances') = new
               /\ instances'[new].fields = EmptyMap
               /\ \/ ctrl' = Val(LoxInstance(new))
                  \/ \E i \in 1..Len(kont') :
                        kont'[i].f = "class_call" /\ kont'[i].instance = LoxInstance(new)]_vars
    /\ []((driver = "run_test" /\ prog.name \in {"init_return", "init_falloff"})
            => ExpectedOutput(<<"1", "true">>))

\* C12 witness: init fell off the end of its body at construction and in the
\* call through the instance, and that call returned the instance
C12_Witness ==
    /\ prog.name = "init_falloff"
    /\ pc = "done"
    /\ out = <<"1", "true">>

\* the property read is about to give a method of the instance's class or of
\* an ancestor of it
AtMethodAccess ==
    /\ Returned("get")
    /\ ctrl.v.t = "instance"
    /\ ~Has(instances[ctrl.v.iid].fields, Top.e.name)
    /\ find_method(instances[ctrl.v.iid].cls, Top.e.name) # None

\* the function whose call is the innermost one on the stack
CallDepth == {i \in 1..Len(kont) : kont[i].f = "call"}
InnermostCall == kont[CHOOSE i \in CallDepth : \A j \in CallDepth : j <= i].fn

\* C13: for an instance i and a method m of its class or of an ancestor,
\* i.m is a callable in which this is i whenever it is called, also after it
\* was stored in a variable, passed as an argument or assigned to a field of
\* another instance; binding changes neither the method stored in the class
\* nor an earlier bound method.
C13_BoundMethodKeepsItsInstance ==
    /\ [][AtMethodAccess =>
            /\ ctrl'.m = "val"
            /\ ctrl'.v.t = "fun"
            /\ ctrl'.v.decl = find_method(instances[ctrl.v.iid].cls, Top.e.name).decl
            /\ envs'[ctrl'.v.enclosing].bindings["this"] = ctrl.v
            /\ SubSeq(envs', 1, Len(envs)) = envs
            /\ instances' = instances]_vars
    /\ [][\A e \in 1..Len(envs) :
            Has(envs[e].bindings, "this") => envs'[e] = envs[e]]_vars
    /\ []((Running /\ ctrl.m = "eval" /\ ctrl.e.k = "This" /\ errors = <<>>
              /\ CallDepth # {} /\ Has(envs[InnermostCall.enclosing].bindings, "this"))
            => _lookup_variable(envs, env, locals, "this", ctrl.e.id)
                    = Ok(ThisOf(InnermostCall)))
    /\ []((driver = "run_test" /\ prog.name = "bound_method")
            => ExpectedOutput(<<"1", "1", "1", "2", "1">>))

\* C13 witness: the method read from the first instance is being called
\* through a field of the second, and this is about to be evaluated
C13_Witness ==
    /\ prog.name = "bound_method"
    /\ out = <<"1", "1">>
    /\ Running /\ ctrl.m = "eval" /\ ctrl.e.k = "This"
    /\ Has(instances[2].fields, "other")

\* C14: super.m inside a method of a class whose superclass is B gives B's
\* (or its nearest defining ancestor's) m bound to the current instance; the
\* program whose B.greet calls super.greet() and then prints B prints A then B.
C14_SuperCallPrintsAThenB ==
    (driver = "run_test" /\ prog.name = "super" /\ pc \in {"done", "crashed"})
        => (pc = "done" /\ out = <<"A", "B">> /\ rt_reports = <<>>)

\* C16: a class declaration whose superclass is the class itself is rejected
\* statically with 'A class can't inherit from itself', before any statement
\* is executed.
C16_SelfInheritanceRejectedStatically ==
    (prog.name = "self_inherit" /\ driver = "run_test" /\ pc # "start")
        => \E i \in 1..Len(errors) :
               errors[i].message = "A class can't inherit from itself"

Redeclared == [token |-> "a", message |-> "Already a variable with this name in scope"]

\* the text printed for the later of the two top-level definitions of a
RedeclaredText(kind) ==
    CASE kind = "var" -> "2" [] kind = "fun" -> "<fun a>" [] kind = "class" -> "<class a>"

\* C17: declaring a variable, function, class or parameter in a local scope
\* that already holds the name reports 'Already a variable with this name in
\* scope' (once, and only then); declaring the name again at top level
\* reports nothing and the later definition replaces the earlier value in the
\* global frame.
C17_RedeclarationOnlyLocalIsAnError ==
    (driver = "run_test" /\ pc # "start") =>
        /\ (\E i \in 1..Len(errors) : errors[i].message = Redeclared.message)
              => prog.name = "redeclare"
        /\ prog.name = "redeclare" =>
              IF prog.local \/ prog.kind \in {"param", "param_body"}
              THEN errors = <<Redeclared>>
              ELSE /\ errors = <<>>
                   /\ ExpectedOutput(<<RedeclaredText(prog.kind)>>)
                   /\ Terminated => _stringify(envs[1].bindings["a"]) = RedeclaredText(prog.kind)

\* C17 witness: a class declared in a block over a variable of its name has
\* been reported
C17_Witness ==
    /\ prog = [name |-> "redeclare", kind |-> "class", local |-> TRUE]
    /\ pc # "start"
    /\ errors = <<Redeclared>>

TopLevelReturn == [token |-> "return", message |-> "Can't return from top-level code"]
InitializerValue ==
    [token |-> "return", message |-> "Can't return a value from an initializer"]

\* the errors the resolver is to report for the program with returns at where
ReturnErrors(where) ==
    CASE where \in {"top", "top_value", "top_block", "after_fun"} -> <<TopLevelReturn>>
      [] where \in {"init_value", "init_after_nested"} -> <<InitializerValue>>
      [] OTHER -> <<>>

\* C18: the resolver reports a return statement exactly when it is in no
\* function or method body ('Can't return from top-level code') or carries a
\* value with an initializer as its innermost function ('Can't return a value
\* from an initializer'); a bare return in init, and a return of a value in a
\* function nested in init, in a method or in a function, are not reported.
C18_ReturnErrorsExactlyWhereSpecified ==
    (driver = "run_test" /\ pc # "start") =>
        /\ prog.name = "return_check" => errors = ReturnErrors(prog.where)
        /\ prog.name \in {"return", "init_return", "counter"} => errors = <<>>
        /\ (\E i \in 1..Len(errors) :
                errors[i].message \in {TopLevelReturn.message, InitializerValue.message})
              => prog.name = "return_check"

\* C18 witness: the value returned by the function nested in init has been
\* printed, and the resolver reported nothing
C18_Witness ==
    /\ prog = [name |-> "return_check", where |-> "init_nested"]
    /\ pc = "done" /\ out = <<"1">> /\ errors = <<>>

ThisOutsideClass == [token |-> "this", message |-> "Can't use 'this' outside of a class"]

\* C19: a use of this that is not lexically inside a class declaration, at
\* top level or in a plain function, is reported with 'Can't use 'this'
\* outside of a class'; a use inside a method, also in a function nested in
\* the method, is not reported (and evaluates to the instance), and after a
\* class declaration ends the resolver is in the state it was in before it.
C19_ThisOnlyInsideClass ==
    (driver = "run_test" /\ pc # "start") =>
        /\ prog.name = "this_check" =>
              IF prog.where \in {"top", "fun", "after_class", "class_in_fun"}
              THEN errors = <<ThisOutsideClass>>
              ELSE errors = <<>> /\ ExpectedOutput(<<"<A instance>">>)
        /\ (\E i \in 1..Len(errors) : errors[i].message = ThisOutsideClass.message)
              => prog.name = "this_check"

\* C19 witness: this in a function nested in a method was not reported and
\* has been printed as the instance
C19_Witness ==
    /\ prog = [name |-> "this_check", where |-> "method_nested"]
    /\ pc = "done" /\ errors = <<>> /\ out = <<"<A instance>">>

\* the callee and all arguments of a call expression are evaluated: the
\* callee value and the argument values
AtInvoke ==
    \/ Returned("call_callee") /\ Top.e.args = <<>>
    \/ Returned("call_args") /\ Len(Top.args) + 1 = Len(Top.e.args)
InvokedCallee == IF Top.f = "call_callee" THEN ctrl.v ELSE Top.callee
InvokedArgs == IF Top.f = "call_callee" THEN <<>> ELSE Append(Top.args, ctrl.v)
MayInvoke == IsCallable(InvokedCallee) /\ Len(InvokedArgs) = arity(InvokedCallee)

\* the error a call that may not be invoked is to raise
CallError ==
    IF ~IsCallable(InvokedCallee)
    THEN LoxRuntimeError(")", "Can only call functions and classes")
    ELSE LoxRuntimeError(")", "Expected " \o ToString(arity(InvokedCallee))
                              \o " arguments but got " \o ToString(Len(InvokedArgs)))

NCalls(k) == Cardinality({i \in 1..Len(k) : k[i].f = "call"})

\* what the run of a program with a wrong call reports and prints
CallReport(where) ==
    CASE where \in {"string", "instance", "args_first"} -> "Can only call functions and classes"
      [] where \in {"too_few", "class_init", "method"} -> "Expected 1 arguments but got 0"
      [] where = "too_many" -> "Expected 1 arguments but got 2"
      [] where \in {"class_noinit", "native"} -> "Expected 0 arguments but got 1"

\* C20: a call invokes its callee only if the callee is a function, class or
\* native function and the number of arguments is its arity; otherwise it
\* raises 'Can only call functions and classes' or 'Expected N arguments but
\* got M' at the closing parenthesis, and then no statement of the callee
\* runs, no call frame is created and no instance is constructed.
C20_CallChecksCalleeAndArity ==
    /\ [][(AtInvoke /\ ~MayInvoke) =>
            /\ ctrl' = Raise(CallError)
            /\ kont' = Pop
            /\ <<env, envs, instances, out>>' = <<env, envs, instances, out>>]_vars
    /\ [][(AtInvoke /\ MayInvoke) =>
            CASE InvokedCallee.t = "fun" ->
                    /\ kont'[Len(kont)] = [f |-> "call", fn |-> InvokedCallee]
                    /\ envs'[env'].enclosing = InvokedCallee.enclosing
                    /\ Len(envs') = Len(envs) + 1
              [] InvokedCallee.t = "class" -> Len(instances') = Len(instances) + 1
              [] OTHER -> ctrl'.m \in {"val", "raise", "eval"}]_vars
    /\ [][(NCalls(kont') > NCalls(kont) \/ Len(instances') > Len(instances))
            => (AtInvoke /\ MayInvoke)]_vars
    /\ []((driver = "run_test" /\ prog.name = "call_check" /\ Terminated) =>
            IF prog.where = "ok" THEN out = <<"1">> /\ rt_reports = <<>>
            ELSE /\ rt_reports = <<LoxRuntimeError(")", CallReport(prog.where))>>
                 /\ out = IF prog.where = "args_first" THEN <<"arg">> ELSE <<>>
                 /\ Len(instances) = IF prog.where \in {"instance", "method"} THEN 1 ELSE 0)

\* C20 witness: the call of a class whose init takes one argument, with no
\* argument, has been reported, and no instance exists
C20_Witness ==
    /\ prog = [name |-> "call_check", where |-> "class_init"]
    /\ Terminated
    /\ rt_reports = <<LoxRuntimeError(")", "Expected 1 arguments but got 0")>>
    /\ instances = <<>>

----------------------------------------------------------------------------
\* this step enters _execute_block: the frame it pushes remembers the current
\* frame, and the new current frame is a frame made in this step
EntersBlock ==
    /\ kont' # <<>>
    /\ kont'[Len(kont')].f = "block"
    /\ kont'[Len(kont')].prev = env
    /\ Len(envs') > Len(envs)
    /\ env' = Len(envs')

\* this step leaves _execute_block, whatever the way
LeavesBlock == Running /\ kont # <<>> /\ Top.f = "block" /\ Len(kont') < Len(kont)

\* the frame _execute_block was given: for a function body the child of the
\* function's captured frame, for a block statement the child of the frame
\* that was current
BlockParent ==
    IF Len(kont) >= 2 /\ kont[Len(kont) - 1].f = "call"
    THEN kont[Len(kont) - 1].fn.enclosing
    ELSE Top.prev

\* C22: executing a block or calling a function leaves the current frame as
\* it was before, on every exit path (normal end, runtime error, Return
\* signal): the frame that was current on entry is put back when the block
\* is left, the current frame changes in no other step, the suspended
\* callers are untouched, and between the statements of a block the current
\* frame is the block's own.  Hence between top-level statements and after
\* interpret() has returned, normally or not, the current frame is the
\* global frame.
C22_CurrentFrameRestoredOnEveryExit ==
    /\ [][LeavesBlock => kont' = Pop /\ env' = Top.prev]_vars
    /\ [][env' # env => Running /\ (EntersBlock \/ LeavesBlock)]_vars
    /\ [][Running => \A i \in 1..(Len(kont) - 1) : i <= Len(kont') => kont'[i] = kont[i]]_vars
    /\ [](Finished("block") => envs[env].enclosing = BlockParent)
    /\ [](Running /\ kont # <<>> /\ Top.f = "interpret" => env = 1)
    /\ [](driver = "run_test" /\ pc \in {"done", "crashed"} => env = 1)
    /\ [](prog.name = "frame_restore" /\ logger = "LoxLogger" /\ pc = "done" =>
            /\ out = <<"1">>
            /\ Len(rt_reports) = 1
            /\ rt_reports[1].msg =
                   (IF prog.where = "method" THEN "Operands must be numbers"
                    ELSE "Undefined variable 'nope'"))

\* the number of frames of kind f on the stack
Depth(f) == Cardinality({i \in 1..Len(kont) : kont[i].f = f})

\* C22 witness: a runtime error about to leave the block of a function body
\* that was called from inside a block statement
C22_Witness ==
    /\ Raising
    /\ ctrl.exc.k = "LoxRuntimeError"
    /\ Top.f = "block"
    /\ Depth("block") >= 2
    /\ Depth("call") >= 1
    /\ env # 1

----------------------------------------------------------------------------
\* the values Lox takes for false
Falsy(v) == v \in {Nil, Bool(FALSE)}

\* the left operand decides the logical expression whose frame is on top
LeftDecides == IF Top.e.operator = "or" THEN ~Falsy(ctrl.v) ELSE Falsy(ctrl.v)

\* the logical expressions whose left operand is being or has been evaluated
NLogical(k) == Cardinality({i \in 1..Len(k) : k[i].f = "logical"})

\* what print t(L) op t(R) prints: t prints its argument when it is called
LogicalOutput(op, left, right) ==
    IF (op = "or") = Falsy(left)
    THEN <<_stringify(left), _stringify(right), _stringify(right)>>
    ELSE <<_stringify(left), _stringify(left)>>

\* C25: a logical expression evaluates its left operand once; when the left
\* value decides (truthy for or, falsy for and) that value is the result and
\* the right operand is not evaluated, otherwise the right operand is
\* evaluated and its value is the result; only nil and false are falsy, so
\* nil or "yes" is "yes", "a" and "b" is "b", and 0 and "x" is "x".
C25_LogicalShortCircuitsAndKeepsOperand ==
    /\ [][Evaluating("Logical") =>
            /\ ctrl' = Eval(ctrl.e.left)
            /\ kont' = Push([f |-> "logical", e |-> ctrl.e])]_vars
    /\ [][Returned("logical") =>
            /\ kont' = Pop
            /\ ctrl' = IF LeftDecides THEN Val(ctrl.v) ELSE Eval(Top.e.right)
            /\ out' = out]_vars
    /\ [][NLogical(kont') > NLogical(kont) => Evaluating("Logical")]_vars
    /\ []((driver = "run_test" /\ prog.name = "logical") =>
            ExpectedOutput(LogicalOutput(prog.op, prog.left, prog.right)))

\* C25 witness: 0 and "x" has evaluated both operands once and printed "x"
C25_Witness ==
    /\ prog = [name |-> "logical", op |-> "and", left |-> Num(0), right |-> Str("x")]
    /\ pc = "done"
    /\ out = <<"0", "x", "x">>

----------------------------------------------------------------------------
\* what the order programs print, and the runtime error they end with
OrderOutput(kind) ==
    CASE kind = "binary" -> <<"1", "2", "-1">>
      [] kind = "binary_fault" -> <<"s", "nil">>
      [] kind = "call" -> <<"<fun f>", "1", "2", "3">>
      [] kind = "call_fault" -> <<"nil", "1", "2">>
      [] kind = "assign" -> <<"0", "1">>
      [] kind = "set" -> <<"<A instance>", "1">>
      [] kind = "set_fault" -> <<"nil">>
OrderReports(kind) ==
    CASE kind = "binary_fault" -> <<LoxRuntimeError("-", "Operands must be numbers")>>
      [] kind = "call_fault" -> <<LoxRuntimeError(")", "Can only call functions and classes")>>
      [] kind = "set_fault" -> <<LoxRuntimeError("x", "Only instances have fields")>>
      [] OTHER -> <<>>

\* the frames that hold the evaluated part of an expression not yet complete
OperandFrames == {"binary_left", "binary_right", "call_callee", "call_args",
                  "assign", "set_object", "set_value"}
NOperandFrames(k) == Cardinality({i \in 1..Len(k) : k[i].f \in OperandFrames})

\* C26: sub-expressions are evaluated left to right, each once: the left
\* operand of a binary expression, then the right, then the type check; the
\* callee of a call, then the arguments in source order, then the checks and
\* the invocation; the right-hand side of an assignment, then the store; the
\* object of a property set, then the value, then the store.
C26_OperandsLeftToRightOnce ==
    /\ [][Evaluating("Binary") =>
            ctrl' = Eval(ctrl.e.left) /\ kont' = Push([f |-> "binary_left", e |-> ctrl.e])]_vars
    /\ [][Returned("binary_left") =>
            /\ ctrl' = Eval(Top.e.right)
            /\ kont' = Append(Pop, [f |-> "binary_right", e |-> Top.e, left |-> ctrl.v])]_vars
    /\ [][Returned("binary_right") => kont' = Pop /\ ctrl'.m \in {"val", "raise"}]_vars
    /\ [][Evaluating("Call") =>
            ctrl' = Eval(ctrl.e.callee) /\ kont' = Push([f |-> "call_callee", e |-> ctrl.e])]_vars
    /\ [][(Returned("call_callee") /\ Top.e.args # <<>>) =>
            /\ ctrl' = Eval(Top.e.args[1])
            /\ kont' = Append(Pop, [f |-> "call_args", e |-> Top.e,
                                     callee |-> ctrl.v, args |-> <<>>])]_vars
    /\ [][(Returned("call_args") /\ Len(Top.args) + 1 < Len(Top.e.args)) =>
            /\ ctrl' = Eval(Top.e.args[Len(Top.args) + 2])
            /\ kont' = Append(Pop, [Top EXCEPT !.args = Append(Top.args, ctrl.v)])]_vars
    /\ [][Evaluating("Assign") =>
            /\ ctrl' = Eval(ctrl.e.value) /\ kont' = Push([f |-> "assign", e |-> ctrl.e])
            /\ envs' = envs]_vars
    /\ [][Returned("assign") => kont' = Pop /\ ctrl'.m \in {"val", "raise"}]_vars
    /\ [][Evaluating("Set") =>
            /\ ctrl' = Eval(ctrl.e.object) /\ kont' = Push([f |-> "set_object", e |-> ctrl.e])
            /\ instances' = instances]_vars
    /\ [][(Returned("set_object") /\ ctrl.v.t = "instance") =>
            /\ ctrl' = Eval(Top.e.value)
            /\ kont' = Append(Pop, [f |-> "set_value", e |-> Top.e, obj |-> ctrl.v])
            /\ instances' = instances]_vars
    /\ [][Returned("set_value") =>
            /\ kont' = Pop /\ ctrl' = Val(ctrl.v)
            /\ instances'[Top.obj.iid].fields[Top.e.name] = ctrl.v]_vars
    /\ [][NOperandFrames(kont') > NOperandFrames(kont) =>
            (Running /\ ctrl.m = "eval" /\ ctrl.e.k \in {"Binary", "Call", "Assign", "Set"})]_vars
    /\ []((driver = "run_test" /\ prog.name = "order") =>
            /\ IsPrefix(out, OrderOutput(prog.kind))
            /\ (pc = "done" /\ logger = "LoxLogger") =>
                    (out = OrderOutput(prog.kind) /\ rt_reports = OrderReports(prog.kind)))

\* C26 witness: t(nil)(t(1), t(2)) has evaluated the callee and both
\* arguments in this order before the call was refused
C26_Witness ==
    /\ prog = [name |-> "order", kind |-> "call_fault"]
    /\ pc = "done"
    /\ out = <<"nil", "1", "2">>
    /\ rt_reports = <<LoxRuntimeError(")", "Can only call functions and classes")>>

----------------------------------------------------------------------------
\* the frames of the chain that starts at frame e, innermost first
RECURSIVE Chain(_)
Chain(e) == IF e = 0 THEN <<>> ELSE <<e>> \o Chain(envs[e].enclosing)

\* the places in the chain of e of the frames that bind name
Binders(e, name) == {i \in 1..Len(Chain(e)) : Has(envs[Chain(e)[i]].bindings, name)}

\* the nearest frame of the chain of e that binds name
Nearest(e, name) == Chain(e)[CHOOSE i \in Binders(e, name) : \A j \in Binders(e, name) : i <= j]

\* the names some frame binds, and one that none does
BoundNames == UNION {DOMAIN envs[e].bindings : e \in 1..Len(envs)}
ProbeNames == BoundNames \cup {"nope"}
ProbeValue == Str("probe")

\* arena es is envs but for the binding of name in frame f, which is value
OnlyRebinds(es, f, name, value) ==
    /\ Len(es) = Len(envs)
    /\ \A g \in 1..Len(envs) :
          /\ es[g].enclosing = envs[g].enclosing
          /\ DOMAIN es[g].bindings = DOMAIN envs[g].bindings
          /\ \A n \in DOMAIN envs[g].bindings :
                es[g].bindings[n] = IF g = f /\ n = name THEN value ELSE envs[g].bindings[n]

\* assign and get, called on frame e for name, do what C28 says
AssignAndGetAt(e, name) ==
    LET Expect(written, read) ==
            IF Binders(e, name) = {}
            THEN /\ written = Fail(LoxRuntimeError(name, "Undefined variable '" \o name \o "'"))
                 /\ read = Fail(LoxRuntimeError(name, "Undefined variable '" \o name \o "'"))
            ELSE /\ written.ok
                 /\ OnlyRebinds(written.v, Nearest(e, name), name, ProbeValue)
                 /\ read = Ok(envs[Nearest(e, name)].bindings[name])
                 /\ get(written.v, e, name) = Ok(ProbeValue)
    IN Expect(assign(envs, e, name, ProbeValue), get(envs, e, name))

\* an assignment expression whose target has no side-table entry stores
\* through Environment.assign on the global frame
AssignsThroughChain == Returned("assign") /\ ~Has(locals, Top.e.id)

\* C28: Environment.assign updates the binding of the name in the nearest
\* frame of the receiver's chain that binds it and changes nothing else;
\* when no frame of the chain binds the name it raises Undefined variable
\* '<name>' and changes nothing; it never creates a binding; for get and for
\* assign, a binding in an inner frame shadows that of an outer frame.
C28_AssignUpdatesNearestBinderOnly ==
    /\ [](\A e \in 1..Len(envs) : \A name \in ProbeNames : AssignAndGetAt(e, name))
    /\ [][AssignsThroughChain =>
            IF Has(envs[1].bindings, Top.e.name)
            THEN /\ OnlyRebinds(envs', 1, Top.e.name, ctrl.v)
                 /\ ctrl'.m = "val"
            ELSE /\ envs' = envs
                 /\ ctrl' = Raise(LoxRuntimeError(Top.e.name,
                                      "Undefined variable '" \o Top.e.name \o "'"))]_vars

\* C28 witness: the body of f has assigned 2 to the global a from a block
\* two frames below the global frame, where b of f shadows the global b
C28_Witness ==
    /\ prog = [name |-> "global", where |-> "assign_deep"]
    /\ Running /\ env > 1
    /\ Cardinality(Binders(env, "b")) = 2
    /\ Len(Chain(env)) = 3
    /\ envs[1].bindings["a"] = Num(2)

----------------------------------------------------------------------------
\* the nodes directly inside node x
Children(x) ==
    CASE x.k = "Assign" -> <<x.value>>
      [] x.k \in {"Binary", "Logical"} -> <<x.left, x.right>>
      [] x.k = "Unary" -> <<x.operand>>
      [] x.k = "Grouping" -> <<x.expr>>
      [] x.k = "Call" -> <<x.callee>> \o x.args
      [] x.k = "Get" -> <<x.object>>
      [] x.k = "Set" -> <<x.object, x.value>>
      [] x.k = "Block" -> x.stmts
      [] x.k = "Class" -> <<x.superclass>> \o x.methods
      [] x.k \in {"ExprStmt", "PrintStmt"} -> <<x.expr>>
      [] x.k = "FunctionStmt" -> x.body
      [] x.k = "IfStmt" -> <<x.cond, x.then_branch, x.else_branch>>
      [] x.k = "ReturnStmt" -> <<x.value>>
      [] x.k = "VarStmt" -> <<x.init>>
      [] x.k = "WhileStmt" -> <<x.cond, x.body>>
      [] OTHER -> <<>>

\* the references to names in x: their node ids and names
RECURSIVE Refs(_)
Refs(x) ==
    (IF x.k \in {"Variable", "Assign", "This", "Super"} THEN {[id |-> x.id, name |-> x.name]}
     ELSE {})
    \cup UNION {Refs(Children(x)[i]) : i \in 1..Len(Children(x))}

\* the names x declares in a block, function or class scope; inner says that
\* x itself is inside such a scope
RECURSIVE LocalDecls(_, _)
LocalDecls(x, inner) ==
    LET Inside(in) == UNION {LocalDecls(Children(x)[i], in) : i \in 1..Len(Children(x))}
        Own == IF inner /\ x.k \in {"VarStmt", "FunctionStmt", "Class"} THEN {x.name} ELSE {}
    IN CASE x.k = "FunctionStmt" -> Own \cup {x.params[i] : i \in 1..Len(x.params)} \cup Inside(TRUE)
         [] x.k = "Class" -> Own \cup {"this", "super"} \cup Inside(TRUE)
         [] x.k = "Block" -> Inside(TRUE)
         [] OTHER -> Own \cup Inside(inner)

ProgramRefs == UNION {Refs(Statements(prog)[i]) : i \in 1..Len(Statements(prog))}
ProgramLocalDecls ==
    UNION {LocalDecls(Statements(prog)[i], FALSE) : i \in 1..Len(Statements(prog))}

\* the side table, what is printed and what is reported for the programs that
\* use global names from inner frames
GlobalLocals(where) == IF where = "assign_deep" THEN Put(EmptyMap, 3, 1) ELSE EmptyMap
GlobalOutput(where) ==
    CASE where = "assign_deep" -> <<"2", "0", "2", "1">>
      [] where = "late" -> <<"1">>
      [] where \in {"undefined_assign", "undefined_read"} -> <<>>
GlobalReports(where) ==
    CASE where \in {"undefined_assign", "undefined_read"} ->
            <<LoxRuntimeError("nope", "Undefined variable 'nope'")>>
      [] OTHER -> <<>>

UndefinedVariable(name) == LoxRuntimeError(name, "Undefined variable '" \o name \o "'")

\* C29: the side table has an entry for a reference only if a block,
\* function or class scope around it declares the name; a name declared only
\* at top level has none, and is read and written in the global frame from
\* a current frame of any depth, with Undefined variable '<name>' when the
\* global frame does not bind it.
C29_SideTableHoldsLocalsOnly ==
    /\ [](\A r \in ProgramRefs : Has(locals, r.id) => r.name \in ProgramLocalDecls)
    /\ []((Evaluating("Variable") /\ Has(locals, ctrl.e.id)) =>
              _ancestor(envs, env, locals[ctrl.e.id]) # 1)
    /\ [][(Evaluating("Variable") /\ ~Has(locals, ctrl.e.id)) =>
            /\ ctrl' = IF Has(envs[1].bindings, ctrl.e.name)
                       THEN Val(envs[1].bindings[ctrl.e.name])
                       ELSE Raise(UndefinedVariable(ctrl.e.name))
            /\ envs' = envs]_vars
    /\ [][(Returned("assign") /\ ~Has(locals, Top.e.id)) =>
            IF Has(envs[1].bindings, Top.e.name)
            THEN envs' = [envs EXCEPT ![1].bindings[Top.e.name] = ctrl.v]
            ELSE envs' = envs /\ ctrl' = Raise(UndefinedVariable(Top.e.name))]_vars
    /\ []((driver = "run_test" /\ prog.name = "global" /\ pc # "start") =>
            /\ locals = GlobalLocals(prog.where)
            /\ IsPrefix(out, GlobalOutput(prog.where))
            /\ (pc = "done" /\ logger = "LoxLogger") =>
                    (out = GlobalOutput(prog.where) /\ rt_reports = GlobalReports(prog.where)))

\* C29 witness: print g; in a block in the body of f, called after var g = 1;
\* at top level, has no side-table entry and has printed the global g
C29_Witness ==
    /\ prog = [name |-> "global", where |-> "late"]
    /\ locals = EmptyMap
    /\ Len(envs) = 3
    /\ out = <<"1">>

----------------------------------------------------------------------------
\* equality of Lox values: values of different runtime types are different
LoxEquals(x, y) == x.t = y.t /\ x = y
BoolText(b) == IF b THEN "true" ELSE "false"

\* C30: == is true only for two values of the same runtime type: nil equals
\* only nil, in either order, a boolean never equals a number (true == 1 and
\* false == 0 are false), and != is the negation of ==.
C30_EqualityNeverAcrossTypes ==
    /\ [][(Returned("binary_right") /\ Top.e.operator \in {"==", "!="}) =>
            ctrl' = Val(Bool((Top.e.operator = "==") = LoxEquals(Top.left, ctrl.v)))]_vars
    /\ []((driver = "run_test" /\ prog.name = "equality") =>
            ExpectedOutput(<<BoolText(LoxEquals(prog.left, prog.right)),
                             BoolText(~LoxEquals(prog.left, prog.right))>>))
====
